---- MODULE Spec2Model ----
(***************************************************************************)
(* ProMatch Predictor: the Poisson prediction engine                       *)
(* (src/src/predictionEngine.js), the odds helpers                         *)
(* (src/src/utils/OddsUtils.js) and the per-match simulation store         *)
(* (src/src/context/SimulationContext.jsx).                                *)
(*                                                                         *)
(* Numbers.  JavaScript Numbers are modelled by exact arithmetic:          *)
(*   - Q: an extended rational <<n, d>> in lowest terms with d >= 0;       *)
(*     <<0,0>> is NaN, <<1,0>> is +Infinity and <<-1,0>> is -Infinity, so  *)
(*     that x/0 and 0/0 behave as they do in IEEE-754;                     *)
(*   - Big: a natural number of any size, the little-endian sequence of    *)
(*     its base-10000 digits (<<>> is 0), used where the 11 x 11 score     *)
(*     grid needs more than 31 bits;                                       *)
(*   - R: a non-negative fraction [n |-> Big, d |-> Big] (not reduced);    *)
(*     d = <<>> with n = <<>> is NaN.                                      *)
(* The only transcendental function of the engine, e^-lambda, is the       *)
(* reciprocal of a Taylor polynomial of e^lambda (see ExpNeg), and 0 where *)
(* the double underflows (see ExpUnderflow).                               *)
(***************************************************************************)
EXTENDS Integers, Sequences, FiniteSets, TLC

(***************************************************************************)
(* Big: natural numbers of unbounded size, as the sequence of their        *)
(* digits in base 10000, the least significant first.  The operators take  *)
(* values that are at hand (a bound variable, a field, an entry); what has *)
(* to be worked out is bound before it is used.                            *)
(***************************************************************************)
\* the element of a singleton: Only({ e(x) : x \in {v} }) is e(v), with v
\* evaluated once
Only(S) == CHOOSE v \in S : TRUE

\* the sequence f, with its entries evaluated once
Now(f) == f \o <<>>

Digit(a, i) == IF i >= 1 /\ i <= Len(a) THEN a[i] ELSE 0

\* a without its leading zeros
BNorm(a) ==
  Only({ SubSeq(x, 1, CHOOSE k \in 0..Len(x) :
                        /\ k = 0 \/ x[k] # 0
                        /\ \A j \in (k + 1)..Len(x) : x[j] = 0)
         : x \in {a} })

RECURSIVE BFromNat(_)
BFromNat(n) == IF n = 0 THEN <<>> ELSE <<n % 10000>> \o BFromNat(n \div 10000)

\* the carry into entry i of u, whose entries are less than 20000
RECURSIVE BCarry(_, _)
BCarry(u, i) ==
  IF i = 1 THEN 0
  ELSE IF u[i - 1] >= 10000 THEN 1
  ELSE IF u[i - 1] = 9999 THEN BCarry(u, i - 1)
  ELSE 0

\* the Big with the value of u, the sum of the u[i] * 10000^(i-1), for
\* entries less than 20000
BCarried(u) ==
  BNorm(Now([i \in 1..(Len(u) + 1) |-> (Digit(u, i) + BCarry(u, i)) % 10000]))

\* the same value with smaller entries: what is above the last four decimal
\* digits of an entry goes to the next entry
BCarryOn(u) ==
  Now([i \in 1..(Len(u) + 1) |-> (Digit(u, i) % 10000) + (Digit(u, i - 1) \div 10000)])

\* the Big with the value of cols, whose entries are any naturals: they are
\* less than 2^31, after one step less than 10000 + 214749, after two less
\* than 10000 + 22
BFromCols(cols) ==
  Only({ Only({ BCarried(u) : u \in {BCarryOn(t)} }) : t \in {BCarryOn(cols)} })

BAdd(a, b) ==
  Only({ BCarried(u)
         : u \in {Now([i \in 1..(IF Len(a) < Len(b) THEN Len(b) ELSE Len(a)) |->
                         Digit(a, i) + Digit(b, i)])} })

\* the sum of digit i of the entries lo..hi of a sequence of Bigs
RECURSIVE ColumnSum(_, _, _, _)
ColumnSum(bigs, i, lo, hi) ==
  IF lo = hi THEN Digit(bigs[lo], i)
  ELSE ColumnSum(bigs, i, lo, (lo + hi) \div 2)
       + ColumnSum(bigs, i, (lo + hi) \div 2 + 1, hi)

\* the sum of a non-empty sequence of Bigs (of less than 200000)
BSum(bigs) ==
  Only({ BFromCols(cols)
         : cols \in {Now([i \in 1..(CHOOSE n \in {Len(bigs[j]) : j \in DOMAIN bigs} :
                                      \A j \in DOMAIN bigs : Len(bigs[j]) <= n) |->
                            ColumnSum(bigs, i, 1, Len(bigs))])} })

\* the sum of the a[i] * b[k + 1 - i] from i on: what the digits of a and b
\* give to digit k of a * b (less than 2^31 for a of up to 21 digits)
RECURSIVE ColSum(_, _, _, _)
ColSum(a, b, k, i) ==
  IF i > Len(a) \/ i > k THEN 0
  ELSE a[i] * b[k + 1 - i] + ColSum(a, b, k, i + 1)

\* a * b for a not longer than b, neither of them 0
BMulCols(a, b) ==
  Only({ BFromCols(cols)
         : cols \in {Now([k \in 1..(Len(a) + Len(b) - 1) |->
                           ColSum(a, b, k, IF k > Len(b) THEN k + 1 - Len(b) ELSE 1)])} })

BMul(a, b) ==
  IF a = <<>> \/ b = <<>> THEN <<>>
  ELSE IF Len(a) <= Len(b) THEN BMulCols(a, b) ELSE BMulCols(b, a)

\* a * m for a natural m
BMulSmall(a, m) == Only({ BMul(a, y) : y \in {BFromNat(m)} })

\* -1, 0 or 1 as a < b, a = b or a > b: the most significant digit that
\* differs decides
BCmp(a, b) ==
  IF Len(a) < Len(b) THEN -1
  ELSE IF Len(a) > Len(b) THEN 1
  ELSE IF a = b THEN 0
  ELSE Only({ IF a[i] < b[i] THEN -1 ELSE 1
              : i \in {CHOOSE i \in 1..Len(a) :
                         /\ a[i] # b[i]
                         /\ SubSeq(a, i + 1, Len(a)) = SubSeq(b, i + 1, Len(a))} })

\* what digit i of a - b borrows
RECURSIVE BBorrow(_, _, _)
BBorrow(a, b, i) ==
  IF i = 1 THEN 0
  ELSE IF a[i - 1] < Digit(b, i - 1) THEN 1
  ELSE IF a[i - 1] = Digit(b, i - 1) THEN BBorrow(a, b, i - 1)
  ELSE 0

\* a - b for a >= b
BSub(a, b) ==
  BNorm(Now([i \in 1..Len(a) |->
               (10000 + a[i] - Digit(b, i) - BBorrow(a, b, i)) % 10000]))

\* b * q <= r
BFits(b, q, r) == Only({ BCmp(p, r) <= 0 : p \in {BMulSmall(b, q)} })

\* the largest q with b * q <= r, for r < b * 10000 and a b whose leading
\* digit is 5000 or more: the quotient of the two leading digits of r by the
\* leading digit of b is q, q + 1 or q + 2 (Knuth, TAOCP 4.3.1, theorem B)
BQuotientDigit(r, b) ==
  Only({ IF BFits(b, guess, r) THEN guess
         ELSE IF BFits(b, guess - 1, r) THEN guess - 1
         ELSE guess - 2
         : guess \in {Only({ IF q > 9999 THEN 9999 ELSE q
                             : q \in {(Digit(r, Len(b) + 1) * 10000 + Digit(r, Len(b)))
                                      \div b[Len(b)]} })} })

\* long division of the digits i..Len(a) of a by such a b: quotient and
\* remainder.  The leading Len(b) - 1 digits of a are less than b, so they
\* are the remainder the division starts from.
RECURSIVE BDivR(_, _, _)
BDivR(a, b, i) ==
  IF i > Len(a) - Len(b) + 1
  THEN [q |-> <<>>, r |-> IF i > Len(a) THEN <<>> ELSE BNorm(SubSeq(a, i, Len(a)))]
  ELSE Only({ Only({ Only({ Only({
         [q |-> BNorm(<<qd>> \o up.q), r |-> BSub(r0, used)]
         : used \in {BMulSmall(b, qd)} })
         : qd \in {BQuotientDigit(r0, b)} })
         : r0 \in {BNorm(<<a[i]>> \o up.r)} })
         : up \in {BDivR(a, b, i + 1)} })

\* the quotient of a by b > 0: that of a * f by b * f, for the f that makes
\* the leading digit of b * f 5000 or more
BDiv(a, b) ==
  Only({ Only({ BDivR(x, y, 1).q
                : x \in {BMulSmall(a, f)}, y \in {BMulSmall(b, f)} })
         : f \in {10000 \div (b[Len(b)] + 1)} })

\* the value of a Big known to fit a machine integer
RECURSIVE BToNatAt(_, _)
BToNatAt(a, i) == IF i > Len(a) THEN 0 ELSE a[i] + 10000 * BToNatAt(a, i + 1)

BToNat(a) == BToNatAt(a, 1)

(***************************************************************************)
(* Q: extended rationals <<n, d>> (machine-sized numerator and denominator)*)
(***************************************************************************)
Abs(n) == IF n < 0 THEN -n ELSE n

Sign(n) == IF n < 0 THEN -1 ELSE IF n > 0 THEN 1 ELSE 0

RECURSIVE GCD(_, _)
GCD(a, b) == IF b = 0 THEN a ELSE GCD(b, a % b)

QMake(n, d) ==
  IF d = 0 THEN <<Sign(n), 0>>
  ELSE Only({ IF d < 0 THEN <<(-n) \div g, (-d) \div g>> ELSE <<n \div g, d \div g>>
              : g \in {GCD(Abs(n), Abs(d))} })

NaN == <<0, 0>>

IsNaN(a) == a = NaN

IsFinite(a) == a[2] # 0

QInt(n) == <<n, 1>>

QMul(a, b) ==
  Only({ IF IsNaN(x) \/ IsNaN(y) THEN NaN ELSE QMake(x[1] * y[1], x[2] * y[2])
         : x \in {a}, y \in {b} })

QDiv(a, b) ==
  Only({ IF IsNaN(x) \/ IsNaN(y) THEN NaN ELSE QMake(x[1] * y[2], x[2] * y[1])
         : x \in {a}, y \in {b} })

QAdd(a, b) ==
  Only({ IF IsNaN(x) \/ IsNaN(y) THEN NaN
         ELSE IF x[2] = 0 /\ y[2] = 0 THEN (IF x = y THEN x ELSE NaN)
         ELSE IF x[2] = 0 THEN x
         ELSE IF y[2] = 0 THEN y
         ELSE QMake(x[1] * y[2] + y[1] * x[2], x[2] * y[2])
         : x \in {a}, y \in {b} })

QNeg(a) == Only({ <<-x[1], x[2]>> : x \in {a} })

QSub(a, b) == QAdd(a, QNeg(b))

\* a < b, a <= b, a > b, a >= b: every comparison with NaN is false
QLt(a, b) ==
  Only({ ~IsNaN(x) /\ ~IsNaN(y) /\ x # y /\ x[1] * y[2] < y[1] * x[2]
         : x \in {a}, y \in {b} })

QLe(a, b) ==
  Only({ ~IsNaN(x) /\ ~IsNaN(y) /\ (x = y \/ x[1] * y[2] < y[1] * x[2])
         : x \in {a}, y \in {b} })

QGt(a, b) == QLt(b, a)

QGe(a, b) == QLe(b, a)

\* Math.max, Math.min, Math.abs
QMax(a, b) ==
  Only({ IF IsNaN(x) \/ IsNaN(y) THEN NaN ELSE IF QLt(x, y) THEN y ELSE x
         : x \in {a}, y \in {b} })

QMin(a, b) ==
  Only({ IF IsNaN(x) \/ IsNaN(y) THEN NaN ELSE IF QLt(y, x) THEN y ELSE x
         : x \in {a}, y \in {b} })

QAbs(a) == Only({ <<Abs(x[1]), x[2]>> : x \in {a} })

(***************************************************************************)
(* R: non-negative fractions of Bigs                                       *)
(***************************************************************************)
RZero == [n |-> <<>>, d |-> <<1>>]

RNaN == [n |-> <<>>, d |-> <<>>]

RIsNaN(a) == a.d = <<>> /\ a.n = <<>>

RIsZero(a) == a.n = <<>> /\ a.d # <<>>

RAdd(a, b) ==
  Only({ IF RIsNaN(x) \/ RIsNaN(y) THEN RNaN
         ELSE IF RIsZero(x) THEN y
         ELSE IF RIsZero(y) THEN x
         ELSE IF x.d = y.d THEN [n |-> BAdd(x.n, y.n), d |-> x.d]
         ELSE Only({ [n |-> BAdd(xn, yn), d |-> BMul(x.d, y.d)]
                     : xn \in {BMul(x.n, y.d)}, yn \in {BMul(y.n, x.d)} })
         : x \in {a}, y \in {b} })

\* the sum of a non-empty sequence of fractions, those that are not 0 having
\* the same denominator
RSum(rs) ==
  IF \E i \in DOMAIN rs : RIsNaN(rs[i]) THEN RNaN
  ELSE IF \A i \in DOMAIN rs : RIsZero(rs[i]) THEN RZero
  ELSE Only({ [n |-> BSum(ns), d |-> rs[CHOOSE i \in DOMAIN rs : ~RIsZero(rs[i])].d]
              : ns \in {Now([i \in DOMAIN rs |-> rs[i].n])} })

\* a / b; 0/0 is NaN (x/0 for x > 0 does not occur: the engine divides a
\* part by the total it belongs to)
RDiv(a, b) ==
  Only({ IF RIsNaN(x) \/ RIsNaN(y) THEN RNaN
         ELSE IF RIsZero(y) THEN RNaN
         ELSE IF RIsZero(x) THEN RZero
         ELSE IF x.d = y.d THEN [n |-> x.n, d |-> y.n]
         ELSE [n |-> BMul(x.n, y.d), d |-> BMul(x.d, y.n)]
         : x \in {a}, y \in {b} })

RMulNat(a, m) ==
  Only({ IF RIsNaN(x) THEN RNaN ELSE [n |-> BMulSmall(x.n, m), d |-> x.d]
         : x \in {a} })

\* -1, 0, 1 as a < b, a = b, a > b (neither is NaN)
RCmp(a, b) ==
  Only({ IF x.d = y.d THEN BCmp(x.n, y.n)
         ELSE Only({ BCmp(xn, yn)
                     : xn \in {BMul(x.n, y.d)}, yn \in {BMul(y.n, x.d)} })
         : x \in {a}, y \in {b} })

\* Math.round(a * scale) as a Big: floor(a * scale + 1/2)
RRound(a, scale) ==
  Only({ Only({ BDiv(twice, BMulSmall(x.d, 2))
                : twice \in {BAdd(BMulSmall(x.n, 2 * scale), x.d)} })
         : x \in {a} })

\* Math.round(a * scale) / scale as a Q
RoundTo(a, scale) ==
  Only({ IF RIsNaN(x) THEN NaN
         ELSE Only({ QMake(BToNat(rounded), scale) : rounded \in {RRound(x, scale)} })
         : x \in {a} })

\* Math.round(a): floor(a + 1/2); NaN and the infinities are returned as is
QRound(a) ==
  Only({ IF ~IsFinite(x) THEN x ELSE QInt((2 * x[1] + x[2]) \div (2 * x[2]))
         : x \in {a} })

\* Math.round(a * scale) / scale, and Number(a.toFixed(digits)) for
\* scale = 10^digits: the decimal nearest to a (halves go up)
QRoundTo(a, scale) == QDiv(QRound(QMul(a, QInt(scale))), QInt(scale))

(***************************************************************************)
(* predictionEngine.js: numeric primitives                                 *)
(***************************************************************************)
\* the number of terms after the first of the Taylor polynomial of e^lambda
ExpTerms == 12

\* the loop of factorial from i on, product being the value of its variable
\* result
RECURSIVE FactorialLoop(_, _, _)
FactorialLoop(i, n, product) ==
  IF i <= n THEN FactorialLoop(i + 1, n, product * i) ELSE product

factorial(n) == IF n = 0 \/ n = 1 THEN 1 ELSE FactorialLoop(2, n, 1)

\* <<m^0, m^1, ..., m^k>>
RECURSIVE Powers(_, _)
Powers(m, k) ==
  IF k = 0 THEN << <<1>> >>
  ELSE Only({ Append(up, BMulSmall(up[k], m)) : up \in {Powers(m, k - 1)} })

\* <<c[ExpTerms], ..., c[k]>> for c[j] = den^(ExpTerms-j) * ExpTerms!/j!
RECURSIVE Coefficients(_, _)
Coefficients(den, k) ==
  IF k = ExpTerms THEN << <<1>> >>
  ELSE Only({ Append(up, BMulSmall(up[ExpTerms - k], den * (k + 1)))
              : up \in {Coefficients(den, k + 1)} })

\* <<lambda^0/0!, lambda^1/1!, ..., lambda^ExpTerms/ExpTerms!>> for
\* lambda = num/den > 0, over the denominator den^ExpTerms * ExpTerms!
PowersOverFactorials(lambda) ==
  Only({ Now([j \in 1..(ExpTerms + 1) |-> BMul(pw[j], c[ExpTerms + 2 - j])])
         : pw \in {Powers(lambda[1], ExpTerms)}, c \in {Coefficients(lambda[2], 0)} })

\* Math.exp(-lambda) for a finite lambda = num/den > 0 is modelled by
\* 1 / (1 + lambda + lambda^2/2! + ... + lambda^ExpTerms/ExpTerms!),
\* exp.d / (den^ExpTerms * ExpTerms!) for exp = ExpNeg(lambda); exp.n[k + 1]
\* is lambda^k / k! over that denominator
ExpNeg(lambda) ==
  Only({ [n |-> terms, d |-> BSum(terms)] : terms \in {PowersOverFactorials(lambda)} })

\* Math.exp(-lambda) is the double 0 for every lambda from here on: e^-746
\* is less than half of the least positive double, 2^-1074
ExpUnderflow == 746

\* poissonProbability when Math.exp(-lambda) is exp:
\* (Math.pow(lambda, k) * Math.exp(-lambda)) / factorial(k), 0 for
\* lambda <= 0.  The value (lambda^k / k!) * (1 / e^lambda) is
\* exp.n[k + 1] / exp.d, so that all the values of one lambda share their
\* denominator; where Math.exp(-lambda) is 0 the product is 0.
Poisson(lambda, k, exp) ==
  IF IsNaN(lambda) THEN RNaN
  ELSE IF QLe(lambda, QInt(0)) THEN RZero
  ELSE IF ~IsFinite(lambda) THEN (IF k = 0 THEN RZero ELSE RNaN)
  ELSE IF QGe(lambda, QInt(ExpUnderflow)) THEN RZero
  ELSE [n |-> exp.n[k + 1], d |-> exp.d]

\* Math.exp(-lambda) where poissonProbability gets to it and it is not 0
ExpNegIfUsed(lambda) ==
  IF IsFinite(lambda) /\ QGt(lambda, QInt(0)) /\ QLt(lambda, QInt(ExpUnderflow))
  THEN ExpNeg(lambda) ELSE RNaN

poissonProbability(lambda, k) ==
  Only({ Poisson(lambda, k, exp) : exp \in {ExpNegIfUsed(lambda)} })

(***************************************************************************)
(* predictionEngine.js: strength model                                     *)
(***************************************************************************)
\* the strength as it would be if the modifier divided it
attackStrengthOverModifier(goalsScored, matchesPlayed, leagueAverage, modifier) ==
  IF matchesPlayed = QInt(0) THEN QInt(1)
  ELSE QDiv(QDiv(QDiv(goalsScored, matchesPlayed), leagueAverage), modifier)

calculateAttackStrength(goalsScored, matchesPlayed, leagueAverage, modifier) ==
  IF matchesPlayed = QInt(0) THEN QInt(1)
  ELSE LET teamGoalsPerGame == QDiv(goalsScored, matchesPlayed)
       IN  QMul(QDiv(teamGoalsPerGame, leagueAverage), modifier)

calculateDefenseStrength(goalsConceded, matchesPlayed, leagueAverage, modifier) ==
  IF matchesPlayed = QInt(0) THEN QInt(1)
  ELSE LET teamGoalsConcededPerGame == QDiv(goalsConceded, matchesPlayed)
       IN  QMul(QDiv(teamGoalsConcededPerGame, leagueAverage), modifier)

\* the product as it would be without the league average
calculateExpectedGoalsUnscaled(attackStrength, defenseStrength, leagueAverage) ==
  QMul(attackStrength, defenseStrength)

calculateExpectedGoals(attackStrength, defenseStrength, leagueAverage) ==
  QMul(QMul(attackStrength, defenseStrength), leagueAverage)

(***************************************************************************)
(* predictionEngine.js: outcome distribution                               *)
(***************************************************************************)
maxGoalsDefault == 10

\* <<poissonProbability(lambda, 0), ..., poissonProbability(lambda, maxGoals)>>,
\* Math.exp(-lambda) worked out once
PoissonRow(lambda, maxGoals) ==
  Only({ Now([k \in 1..(maxGoals + 1) |-> Poisson(lambda, k - 1, exp)])
         : exp \in {ExpNegIfUsed(lambda)} })

\* a * b for fractions whose denominators have the product den
RMulOver(a, b, den) ==
  IF RIsNaN(a) \/ RIsNaN(b) THEN RNaN
  ELSE IF RIsZero(a) \/ RIsZero(b) THEN RZero
  ELSE [n |-> BMul(a.n, b.n), d |-> den]

\* scoreMatrix after the loops: the entries in the order of the pushes,
\* homeGoals by homeGoals.  den is the product of the denominator shared by
\* homeRow and of the one shared by awayRow.
ScoreMatrix(homeRow, awayRow, den, maxGoals) ==
  Now([i \in 1..((maxGoals + 1) * (maxGoals + 1)) |->
         [homeGoals |-> (i - 1) \div (maxGoals + 1),
          awayGoals |-> (i - 1) % (maxGoals + 1),
          probability |-> RMulOver(homeRow[(i - 1) \div (maxGoals + 1) + 1],
                                   awayRow[((i - 1) % (maxGoals + 1)) + 1], den)]])

\* the branches of the loop body
IsHomeWin(score) == score.homeGoals > score.awayGoals

IsDraw(score) == score.homeGoals = score.awayGoals

IsAwayWin(score) == score.homeGoals < score.awayGoals

\* the accumulator that the entries of scores were added to, from 0 (the
\* sums are exact, so the order of the additions does not change them)
Accumulated(scores) ==
  IF scores = <<>> THEN RZero
  ELSE Only({ RSum(ps) : ps \in {Now([i \in DOMAIN scores |-> scores[i].probability])} })

\* the comparator as it would be if it never asked for an exchange: the
\* entries stay in the order of the pushes
GoesBeforeNever(b, a) == FALSE

\* the comparator (a, b) => b.probability - a.probability says that b goes
\* before a: the difference is positive (NaN is not)
GoesBefore(b, a) ==
  ~RIsNaN(a.probability) /\ ~RIsNaN(b.probability)
  /\ RCmp(b.probability, a.probability) > 0

\* the first n entries of the stable merge of the sorted lists x, from entry
\* i on, and y, from entry j on, the entries of x being the earlier ones of
\* the array
RECURSIVE MergeDescAt(_, _, _, _, _)
MergeDescAt(x, y, i, j, n) ==
  IF n = 0 \/ (i > Len(x) /\ j > Len(y)) THEN <<>>
  ELSE IF j <= Len(y) /\ (i > Len(x) \/ GoesBefore(y[j], x[i]))
  THEN <<y[j]>> \o MergeDescAt(x, y, i, j + 1, n - 1)
  ELSE <<x[i]>> \o MergeDescAt(x, y, i + 1, j, n - 1)

\* scores.sort((a, b) => b.probability - a.probability).slice(0, n) for the
\* entries lo..hi of scores: the sort is stable, and of each half only the
\* first n entries can be among the first n of the whole
RECURSIVE SortDescSlice(_, _, _, _)
SortDescSlice(scores, lo, hi, n) ==
  IF lo = hi THEN <<scores[lo]>>
  ELSE Only({ MergeDescAt(x, y, 1, 1, n)
              : x \in {SortDescSlice(scores, lo, (lo + hi) \div 2, n)},
                y \in {SortDescSlice(scores, (lo + hi) \div 2 + 1, hi, n)} })

calculateMatchProbabilities(homeExpectedGoals, awayExpectedGoals, maxGoals) ==
  Only({ Only({ Only({ Only({
    [homeWin |-> RMulNat(RDiv(homeWinProbability, total), 100),
     draw    |-> RMulNat(RDiv(drawProbability, total), 100),
     awayWin |-> RMulNat(RDiv(awayWinProbability, total), 100),
     scoreMatrix |-> SortDescSlice(scoreMatrix, 1, Len(scoreMatrix), 5)]
    : total \in {RAdd(RAdd(homeWinProbability, drawProbability),
                      awayWinProbability)} })
    : homeWinProbability \in {Accumulated(SelectSeq(scoreMatrix, IsHomeWin))},
      drawProbability    \in {Accumulated(SelectSeq(scoreMatrix, IsDraw))},
      awayWinProbability \in {Accumulated(SelectSeq(scoreMatrix, IsAwayWin))} })
    : scoreMatrix \in {ScoreMatrix(homeRow, awayRow,
                                   BMul(homeRow[1].d, awayRow[1].d), maxGoals)} })
    : homeRow \in {PoissonRow(homeExpectedGoals, maxGoals)},
      awayRow \in {PoissonRow(awayExpectedGoals, maxGoals)} })

(***************************************************************************)
(* OddsUtils.js                                                            *)
(***************************************************************************)
RHundred == [n |-> <<100>>, d |-> <<1>>]

\* the conversion as it would be if the percentage were taken for a fraction:
\* parseFloat((1 / probability).toFixed(2))
probabilityAsFractionToDecimal(probability) ==
  Only({ IF RIsNaN(p) THEN NaN
         ELSE IF RIsZero(p) \/ RCmp(p, RHundred) > 0 THEN QInt(0)
         ELSE RoundTo(RDiv([n |-> <<1>>, d |-> <<1>>], p), 100)
         : p \in {probability} })

\* probabilityToDecimal: 0 for a probability <= 0 or > 100 (both comparisons
\* are false for NaN), else parseFloat((1 / (probability / 100)).toFixed(2))
probabilityToDecimal(probability) ==
  Only({ IF RIsNaN(p) THEN NaN
         ELSE IF RIsZero(p) \/ RCmp(p, RHundred) > 0 THEN QInt(0)
         ELSE RoundTo(RDiv(RHundred, p), 100)
         : p \in {probability} })

(***************************************************************************)
(* predictionEngine.js: objects.  A JavaScript object is a record that has  *)
(* the fields the object defines: a field that is missing (undefined) is    *)
(* not in the DOMAIN.  Null stands for null and undefined objects.  A       *)
(* team name is the one-element sequence of its text, a form string is the *)
(* sequence of its characters.                                             *)
(***************************************************************************)
Null == [null |-> TRUE]

Undefined == <<>>

\* obj?.field ?? fallback
Coalesce(obj, field, fallback) ==
  IF field \in DOMAIN obj THEN obj[field] ELSE fallback

\* obj.field used as a number: undefined converts to NaN
NumField(obj, field) == IF field \in DOMAIN obj THEN obj[field] ELSE NaN

\* obj.field, a string, used as a condition: undefined and '' are falsy
Truthy(obj, field) == field \in DOMAIN obj /\ obj[field] # <<>>

\* obj.field, a number, used as a condition: undefined, 0 and NaN are falsy
TruthyNum(obj, field) ==
  field \in DOMAIN obj /\ obj[field] # QInt(0) /\ obj[field] # NaN

(***************************************************************************)
(* predictionEngine.js: derived metrics                                    *)
(***************************************************************************)
RECURSIVE calculateFormPoints(_)
calculateFormPoints(form) ==
  IF form = <<>> THEN 0
  ELSE (IF Head(form) = "W" THEN 3 ELSE IF Head(form) = "D" THEN 1 ELSE 0)
       + calculateFormPoints(Tail(form))

\* Math.max of percentages (NaN if one of them is NaN)
RMax(a, b) ==
  Only({ IF RIsNaN(x) \/ RIsNaN(y) THEN RNaN ELSE IF RCmp(x, y) < 0 THEN y ELSE x
         : x \in {a}, y \in {b} })

RGt(a, b) ==
  Only({ ~RIsNaN(x) /\ ~RIsNaN(y) /\ RCmp(x, y) > 0 : x \in {a}, y \in {b} })

RGeNat(a, m) ==
  Only({ ~RIsNaN(x) /\ RCmp(x, [n |-> BFromNat(m), d |-> <<1>>]) >= 0 : x \in {a} })

\* the classification as it would be of the home side's probability alone
calculateConfidenceOfHomeWin(probabilities) ==
  Only({ IF RGeNat(maxProbability, 55) THEN "High"
         ELSE IF RGeNat(maxProbability, 40) THEN "Medium"
         ELSE "Low"
         : maxProbability \in {probabilities.homeWin} })

calculateConfidence(probabilities) ==
  Only({ IF RGeNat(maxProbability, 55) THEN "High"
         ELSE IF RGeNat(maxProbability, 40) THEN "Medium"
         ELSE "Low"
         : maxProbability \in
             {RMax(RMax(probabilities.homeWin, probabilities.draw),
                   probabilities.awayWin)} })

generateRadarData(homeTeamStats, awayTeamStats, homeAttack, awayAttack) ==
  LET homeForm == IF Truthy(homeTeamStats, "form")
                  THEN QInt(calculateFormPoints(homeTeamStats.form)) ELSE <<15, 2>>
      awayForm == IF Truthy(awayTeamStats, "form")
                  THEN QInt(calculateFormPoints(awayTeamStats.form)) ELSE <<15, 2>>
      perGame(stats, field) ==
        QDiv(NumField(stats, field), NumField(stats, "matchesPlayed"))
  IN  << [metric |-> "Attack",
          home |-> QMin(QInt(100), QMul(homeAttack, QInt(50))),
          away |-> QMin(QInt(100), QMul(awayAttack, QInt(50)))],
         [metric |-> "Defense",
          home |-> QMin(QInt(100),
                     QMul(QSub(QInt(2), perGame(homeTeamStats, "goalsConceded")), QInt(40))),
          away |-> QMin(QInt(100),
                     QMul(QSub(QInt(2), perGame(awayTeamStats, "goalsConceded")), QInt(40)))],
         [metric |-> "Form",
          home |-> QMul(QDiv(homeForm, QInt(15)), QInt(100)),
          away |-> QMul(QDiv(awayForm, QInt(15)), QInt(100))],
         [metric |-> "Goals/Game",
          home |-> QMin(QInt(100), QMul(perGame(homeTeamStats, "goalsScored"), QInt(30))),
          away |-> QMin(QInt(100), QMul(perGame(awayTeamStats, "goalsScored"), QInt(30)))],
         [metric |-> "Consistency",
          home |-> IF TruthyNum(homeTeamStats, "won")
                   THEN QMul(perGame(homeTeamStats, "won"), QInt(100)) ELSE QInt(50),
          away |-> IF TruthyNum(awayTeamStats, "won")
                   THEN QMul(perGame(awayTeamStats, "won"), QInt(100)) ELSE QInt(50)] >>

\* The sentences are records: kind names the template and the other fields
\* are the values the template interpolates (numbers as toFixed and
\* Math.round print them).

\* the notes as they would be if the weight of form were reported as well
modifierNotesWithForm(modifiers, homeName, awayName) ==
  IF QGt(modifiers.home.formWeight, <<2, 5>>)
  THEN << [kind |-> "formWeight", weight |-> modifiers.home.formWeight] >> ELSE <<>>

\* if (modifiers) { ... }: the notes on the modifiers in force
modifierNotes(modifiers, homeName, awayName) ==
  IF modifiers = Null THEN <<>>
  ELSE (IF QLt(modifiers.home.attackMultiplier, QInt(1))
        THEN << [kind |-> "weakenedAttack", team |-> homeName] >> ELSE <<>>)
       \o (IF QLt(modifiers.away.attackMultiplier, QInt(1))
           THEN << [kind |-> "weakenedAttack", team |-> awayName] >> ELSE <<>>)
       \o (IF QLt(modifiers.home.defenseMultiplier, QInt(1))
           THEN << [kind |-> "homeFortress", team |-> homeName] >> ELSE <<>>)

\* the analysis as it would be with >= for >
expectedGoalsAnalysisFromEqual(homeName, awayName, homeExpectedGoals, awayExpectedGoals) ==
  LET xg == [home |-> QRoundTo(homeExpectedGoals, 10), away |-> QRoundTo(awayExpectedGoals, 10)]
  IN  IF QGe(homeExpectedGoals, QMul(awayExpectedGoals, <<3, 2>>))
      THEN << [kind |-> "dominate", team |-> homeName, xG |-> xg] >>
      ELSE IF QGe(awayExpectedGoals, QMul(homeExpectedGoals, <<3, 2>>))
      THEN << [kind |-> "controlTempo", team |-> awayName, xG |-> xg] >>
      ELSE << [kind |-> "evenlyMatched", xG |-> xg] >>

\* Expected goals analysis: one sentence, with the two values as toFixed(1)
\* prints them
expectedGoalsAnalysis(homeName, awayName, homeExpectedGoals, awayExpectedGoals) ==
  LET xg == [home |-> QRoundTo(homeExpectedGoals, 10), away |-> QRoundTo(awayExpectedGoals, 10)]
  IN  IF QGt(homeExpectedGoals, QMul(awayExpectedGoals, <<3, 2>>))
      THEN << [kind |-> "dominate", team |-> homeName, xG |-> xg] >>
      ELSE IF QGt(awayExpectedGoals, QMul(homeExpectedGoals, <<3, 2>>))
      THEN << [kind |-> "controlTempo", team |-> awayName, xG |-> xg] >>
      ELSE << [kind |-> "evenlyMatched", xG |-> xg] >>

generateInsights(homeTeamStats, awayTeamStats, homeAttack, awayAttack, homeDefense, awayDefense, homeExpectedGoals, awayExpectedGoals, probabilities, modifiers) ==
  LET homeName == IF Truthy(homeTeamStats, "name") THEN homeTeamStats.name ELSE <<"Home Team">>
      awayName == IF Truthy(awayTeamStats, "name") THEN awayTeamStats.name ELSE <<"Away Team">>
      homeAhead == RGt(probabilities.homeWin, probabilities.awayWin)
      winner == IF homeAhead THEN homeName ELSE awayName
      winnerProb == RMax(probabilities.homeWin, probabilities.awayWin)
      winnerAttack == IF homeAhead THEN homeAttack ELSE awayAttack
      main == << [kind |-> "edge",
                  underdog |-> IF homeAhead THEN awayName ELSE homeName,
                  team |-> winner,
                  attackRating |-> QRoundTo(winnerAttack, 100),
                  percent |-> RoundTo(winnerProb, 10)] >>
      attackDifference ==
        QMul(QDiv(QSub(homeAttack, awayAttack), QMin(homeAttack, awayAttack)), QInt(100))
      attack == IF QGt(QAbs(attackDifference), QInt(20))
                THEN << [kind |-> "strongerAttack",
                         team |-> IF QGt(attackDifference, QInt(0)) THEN homeName ELSE awayName,
                         percent |-> QAbs(QRound(attackDifference))] >>
                ELSE <<>>
      defenseDifference ==
        QMul(QDiv(QSub(awayDefense, homeDefense), QMin(homeDefense, awayDefense)), QInt(100))
      defense == IF QGt(QAbs(defenseDifference), QInt(20))
                 THEN << [kind |-> "tighterDefense",
                          team |-> IF QGt(defenseDifference, QInt(0)) THEN awayName ELSE homeName,
                          percent |-> QAbs(QRound(defenseDifference))] >>
                 ELSE <<>>
      goals == expectedGoalsAnalysis(homeName, awayName, homeExpectedGoals, awayExpectedGoals)
      homeFormPoints == calculateFormPoints(homeTeamStats.form)
      awayFormPoints == calculateFormPoints(awayTeamStats.form)
      form == IF Truthy(homeTeamStats, "form") /\ Truthy(awayTeamStats, "form")
              THEN IF homeFormPoints > awayFormPoints + 3
                   THEN << [kind |-> "momentum", team |-> homeName,
                            points |-> <<homeFormPoints, awayFormPoints>>] >>
                   ELSE IF awayFormPoints > homeFormPoints + 3
                   THEN << [kind |-> "recentForm", team |-> awayName,
                            points |-> <<awayFormPoints, homeFormPoints>>] >>
                   ELSE <<>>
              ELSE <<>>
      notes == modifierNotes(modifiers, homeName, awayName)
  IN  main \o attack \o defense \o goals \o form \o notes

(***************************************************************************)
(* predictionEngine.js: predictMatch                                       *)
(***************************************************************************)
MissingStatsError == [error |-> "Missing team statistics. Cannot generate prediction."]

defaultModifiers ==
  [home |-> [attackMultiplier |-> QInt(1), defenseMultiplier |-> QInt(1), formWeight |-> <<2, 5>>],
   away |-> [attackMultiplier |-> QInt(1), defenseMultiplier |-> QInt(1), formWeight |-> <<2, 5>>]]

\* scoreMatrix.map(score => ({ ..., probability: Math.round(score.probability * 1000) / 10 }))
LikelyScores(scoreMatrix) ==
  Now([i \in DOMAIN scoreMatrix |->
         [homeGoals |-> scoreMatrix[i].homeGoals,
          awayGoals |-> scoreMatrix[i].awayGoals,
          probability |-> QMul(RoundTo(scoreMatrix[i].probability, 1000), QInt(100))]])

\* the check as it would be if only two missing records were refused
MissingBothStatistics(homeTeamStats, awayTeamStats) ==
  homeTeamStats = Null /\ awayTeamStats = Null

\* !homeTeamStats || !awayTeamStats
MissingStatistics(homeTeamStats, awayTeamStats) ==
  homeTeamStats = Null \/ awayTeamStats = Null

\* What predictMatch works out before the distribution, for statistics that
\* are there: the four strengths and the two expected-goal values.
\* leagueAverage is a Q or Undefined (the argument is omitted).
expectedGoalsOf(homeTeamStats, awayTeamStats, leagueAverage, modifiers) ==
  LET safeLeagueAverage ==
        IF leagueAverage # Undefined /\ QGt(leagueAverage, QInt(0))
        THEN leagueAverage ELSE <<3, 2>>
      mods == IF modifiers = Null THEN defaultModifiers ELSE modifiers
      homeGoalsScored   == Coalesce(homeTeamStats, "goalsScored", QInt(0))
      homeGoalsConceded == Coalesce(homeTeamStats, "goalsConceded", QInt(0))
      homeMatchesPlayed == QMax(QInt(1), Coalesce(homeTeamStats, "matchesPlayed", QInt(1)))
      awayGoalsScored   == Coalesce(awayTeamStats, "goalsScored", QInt(0))
      awayGoalsConceded == Coalesce(awayTeamStats, "goalsConceded", QInt(0))
      awayMatchesPlayed == QMax(QInt(1), Coalesce(awayTeamStats, "matchesPlayed", QInt(1)))
  IN  Only({
        [homeAttackStrength |-> homeAttackStrength,
         homeDefenseStrength |-> homeDefenseStrength,
         awayAttackStrength |-> awayAttackStrength,
         awayDefenseStrength |-> awayDefenseStrength,
         homeExpectedGoals |->
           calculateExpectedGoals(homeAttackStrength, awayDefenseStrength,
                                  safeLeagueAverage),
         awayExpectedGoals |->
           calculateExpectedGoals(awayAttackStrength, homeDefenseStrength,
                                  safeLeagueAverage)]
        : homeAttackStrength \in
            {calculateAttackStrength(homeGoalsScored, homeMatchesPlayed,
                                     safeLeagueAverage, mods.home.attackMultiplier)},
          homeDefenseStrength \in
            {calculateDefenseStrength(homeGoalsConceded, homeMatchesPlayed,
                                      safeLeagueAverage, mods.home.defenseMultiplier)},
          awayAttackStrength \in
            {calculateAttackStrength(awayGoalsScored, awayMatchesPlayed,
                                     safeLeagueAverage, mods.away.attackMultiplier)},
          awayDefenseStrength \in
            {calculateDefenseStrength(awayGoalsConceded, awayMatchesPlayed,
                                      safeLeagueAverage, mods.away.defenseMultiplier)} })

\* The value returned by predictMatch, or MissingStatsError when it throws.
predictMatch(homeTeamStats, awayTeamStats, leagueAverage, modifiers) ==
  IF MissingStatistics(homeTeamStats, awayTeamStats) THEN MissingStatsError
  ELSE
  Only({ Only({
    [homeWin |-> RoundTo(probabilities.homeWin, 10),
     draw    |-> RoundTo(probabilities.draw, 10),
     awayWin |-> RoundTo(probabilities.awayWin, 10),
     fairOdds |-> [home |-> probabilityToDecimal(probabilities.homeWin),
                   draw |-> probabilityToDecimal(probabilities.draw),
                   away |-> probabilityToDecimal(probabilities.awayWin)],
     expectedGoals |-> [home |-> QRoundTo(worked.homeExpectedGoals, 100),
                        away |-> QRoundTo(worked.awayExpectedGoals, 100)],
     strengths |-> [homeAttack  |-> QRoundTo(worked.homeAttackStrength, 100),
                    awayAttack  |-> QRoundTo(worked.awayAttackStrength, 100),
                    homeDefense |-> QRoundTo(worked.homeDefenseStrength, 100),
                    awayDefense |-> QRoundTo(worked.awayDefenseStrength, 100)],
     likelyScores |-> LikelyScores(probabilities.scoreMatrix),
     insights |->
       generateInsights(homeTeamStats, awayTeamStats, worked.homeAttackStrength,
                        worked.awayAttackStrength, worked.homeDefenseStrength,
                        worked.awayDefenseStrength, worked.homeExpectedGoals,
                        worked.awayExpectedGoals, probabilities,
                        IF modifiers = Null THEN defaultModifiers ELSE modifiers),
     confidence |-> calculateConfidence(probabilities),
     radarData |-> generateRadarData(homeTeamStats, awayTeamStats,
                                     worked.homeAttackStrength,
                                     worked.awayAttackStrength)]
    : probabilities \in
        {calculateMatchProbabilities(worked.homeExpectedGoals,
                                     worked.awayExpectedGoals, maxGoalsDefault)} })
    : worked \in
        {expectedGoalsOf(homeTeamStats, awayTeamStats, leagueAverage, modifiers)} })

(***************************************************************************)
(* SimulationContext.jsx                                                   *)
(***************************************************************************)
getDefaultSimulation ==
  [homeKeyPlayerMissing |-> FALSE,
   awayKeyPlayerMissing |-> FALSE,
   homeFortress |-> FALSE,
   formWeight |-> QInt(40),
   homeMotivation |-> QInt(100),
   awayMotivation |-> QInt(100),
   weatherImpact |-> QInt(0),
   homeTacticalStyle |-> "balanced",
   awayTacticalStyle |-> "balanced"]

\* the table as it would be with another fallback: styles[...] || styles.defensive
getTacticalModifiersOrDefensive(homeStyle, awayStyle) ==
  LET styles == [defensive |-> [attack |-> <<17, 20>>, defense |-> <<17, 20>>],
                 balanced  |-> [attack |-> QInt(1), defense |-> QInt(1)],
                 attacking |-> [attack |-> <<23, 20>>, defense |-> <<23, 20>>]]
  IN  [home |-> IF homeStyle \in DOMAIN styles THEN styles[homeStyle] ELSE styles.defensive,
       away |-> IF awayStyle \in DOMAIN styles THEN styles[awayStyle] ELSE styles.defensive]

getTacticalModifiers(homeStyle, awayStyle) ==
  LET styles == [defensive |-> [attack |-> <<17, 20>>, defense |-> <<17, 20>>],
                 balanced  |-> [attack |-> QInt(1), defense |-> QInt(1)],
                 attacking |-> [attack |-> <<23, 20>>, defense |-> <<23, 20>>]]
  IN  [home |-> IF homeStyle \in DOMAIN styles THEN styles[homeStyle] ELSE styles.balanced,
       away |-> IF awayStyle \in DOMAIN styles THEN styles[awayStyle] ELSE styles.balanced]

calculateModifiers(simulation) ==
  LET formWeight == QDiv(simulation.formWeight, QInt(100))
      homeKeyPlayer == IF simulation.homeKeyPlayerMissing THEN <<7, 10>> ELSE QInt(1)
      awayKeyPlayer == IF simulation.awayKeyPlayerMissing THEN <<7, 10>> ELSE QInt(1)
      homeFortress  == IF simulation.homeFortress THEN <<17, 20>> ELSE QInt(1)
      homeMotivation == QDiv(simulation.homeMotivation, QInt(100))
      awayMotivation == QDiv(simulation.awayMotivation, QInt(100))
      weatherFactor == QAdd(QInt(1), QDiv(simulation.weatherImpact, QInt(100)))
      homeWeather == QMax(<<4, 5>>, QMul(weatherFactor, <<9, 10>>))
      awayWeather == QMax(<<4, 5>>, weatherFactor)
      tacticalModifiers ==
        getTacticalModifiers(simulation.homeTacticalStyle, simulation.awayTacticalStyle)
  IN  [home |->
         [attackMultiplier |->
            QMul(QMul(QMul(QMul(QInt(1), homeKeyPlayer), homeMotivation), homeWeather),
                 tacticalModifiers.home.attack),
          defenseMultiplier |->
            QMul(QMul(QInt(1), homeFortress), tacticalModifiers.home.defense),
          formWeight |-> formWeight],
       away |->
         [attackMultiplier |->
            QMul(QMul(QMul(QMul(QInt(1), awayKeyPlayer), awayMotivation), awayWeather),
                 tacticalModifiers.away.attack),
          defenseMultiplier |-> QMul(QInt(1), tacticalModifiers.away.defense),
          formWeight |-> formWeight]]

\* { ...base, ...updates }: the fields of updates override those of base
Spread(base, updates) ==
  [f \in DOMAIN base \cup DOMAIN updates |->
     IF f \in DOMAIN updates THEN updates[f] ELSE base[f]]

(***************************************************************************)
(* The arguments predictMatch is called with                               *)
(***************************************************************************)
Lions ==
  [name |-> <<"Lions">>, goalsScored |-> QInt(60), goalsConceded |-> QInt(20),
   matchesPlayed |-> QInt(20), form |-> <<"W", "W", "D", "W", "W">>,
   won |-> QInt(12)]

Minnows ==
  [name |-> <<"Minnows">>, goalsScored |-> QInt(1), goalsConceded |-> QInt(150),
   matchesPlayed |-> QInt(50), form |-> <<"L", "L", "D", "L", "W">>]

\* a side that has not scored, and one that has not played
Blanks == [goalsScored |-> QInt(0), goalsConceded |-> QInt(12), matchesPlayed |-> QInt(10)]

Newcomers == [name |-> <<>>, goalsScored |-> QInt(0), goalsConceded |-> QInt(0),
              matchesPlayed |-> QInt(0), won |-> QInt(0)]

\* the object {}
EmptyStats == [f \in {} |-> NaN]

\* two pairs of sides whose most likely outcome is within 0.05 below 40 % and
\* below 55 %, and a pair of which the first expects 1.5 times the goals of
\* the second
Rovers == [name |-> <<"Rovers">>, goalsScored |-> QInt(18), goalsConceded |-> QInt(20), matchesPlayed |-> QInt(20)]

Wanderers == [name |-> <<"Wanderers">>, goalsScored |-> QInt(21), goalsConceded |-> QInt(20), matchesPlayed |-> QInt(20)]

Harriers == [name |-> <<"Harriers">>, goalsScored |-> QInt(13), goalsConceded |-> QInt(10), matchesPlayed |-> QInt(10)]

Albion == [name |-> <<"Albion">>, goalsScored |-> QInt(4), goalsConceded |-> QInt(10), matchesPlayed |-> QInt(10)]

United == [name |-> <<"United">>, goalsScored |-> QInt(30), goalsConceded |-> QInt(20), matchesPlayed |-> QInt(20)]

City == [name |-> <<"City">>, goalsScored |-> QInt(20), goalsConceded |-> QInt(20), matchesPlayed |-> QInt(20)]

Fixtures ==
  {<<Rovers, Wanderers, Undefined, Null>>, <<Harriers, Albion, <<5, 2>>, Null>>,
   <<United, City, QInt(1), Null>>, <<City, United, QInt(1), Null>>}

TeamStats == {Lions, Minnows, Blanks, Newcomers, EmptyStats}

LeagueAverages == {Undefined, QInt(0), <<5, 2>>, <<1, 100>>}

AttackMultipliers == {<<7, 10>>, QInt(1), <<23, 20>>}

Side(attack, defense) ==
  [attackMultiplier |-> attack, defenseMultiplier |-> defense, formWeight |-> <<2, 5>>]

Modifiers ==
  {[home |-> Side(ha, QInt(1)), away |-> Side(aa, QInt(1))] :
     ha \in AttackMultipliers, aa \in AttackMultipliers}
  \cup {[home |-> Side(QInt(1), <<17, 20>>), away |-> Side(QInt(1), QInt(1))],
        [home |-> Side(QInt(1), QInt(1)), away |-> Side(QInt(1), <<17, 20>>)]}

\* every pair of statistics (null included) with every league average and
\* no modifiers, and four of the sides with every modifiers object
ArgSpace ==
  {<<h, a, l, Null>> : h \in TeamStats \cup {Null}, a \in TeamStats \cup {Null},
                       l \in LeagueAverages}
  \cup {<<h, a, <<5, 2>>, m>> : h \in TeamStats \ {Newcomers},
                                a \in TeamStats \ {Newcomers}, m \in Modifiers}
  \cup Fixtures

(***************************************************************************)
(* MatchCard.jsx: the matches on screen and the parameters the controls    *)
(* give them                                                               *)
(***************************************************************************)
MatchIds == {"m1", "m2"}

\* matchData, what getMatchPredictionData resolved to for each match
matchData ==
  [m1 |-> [homeStats |-> Lions, awayStats |-> Minnows, leagueAverage |-> <<5, 2>>],
   m2 |-> [homeStats |-> Minnows, awayStats |-> Lions, leagueAverage |-> Undefined]]

\* the flags the controls toggle, the slider values they set and the
\* objects updateSimulation is called with
ToggleParameters == {"homeKeyPlayerMissing", "homeFortress"}

SetParameters == {<<"formWeight", QInt(40)>>, <<"formWeight", QInt(60)>>}

Updates ==
  {[homeKeyPlayerMissing |-> TRUE],
   [formWeight |-> QInt(60), homeFortress |-> FALSE]}

\* the records these operations can store
SimulationSpace ==
  {Spread(getDefaultSimulation,
          [homeKeyPlayerMissing |-> k, homeFortress |-> f, formWeight |-> w]) :
     k \in BOOLEAN, f \in BOOLEAN, w \in {QInt(40), QInt(60)}}

\* the arguments runPrediction gives predictMatch
PipelineArgs ==
  {<<matchData[id].homeStats, matchData[id].awayStats, matchData[id].leagueAverage,
     calculateModifiers(s)>> : id \in MatchIds, s \in SimulationSpace}

\* predictMatch tabulated over the arguments of the calls
PredictMemo ==
  [a \in ArgSpace \cup PipelineArgs |-> predictMatch(a[1], a[2], a[3], a[4])]
(***************************************************************************)
(* State                                                                   *)
(***************************************************************************)
VARIABLES
  simulations,  \* SimulationProvider: the useState map from match id to record
  pending,      \* the updaters given to setSimulations that React has not
                \* applied yet, the oldest first
  args,         \* the arguments of the latest call of predictMatch
  result,       \* what that call returned (MissingStatsError if it threw)
  call,         \* the latest call of one of the helpers, as
                \* [fn |-> ..., input |-> ..., output |-> ...]
  CIRCUIT_BREAKER, \* footballApi: [failures, lastFailureTime, state]
  now,          \* Date.now(), in milliseconds
  fetches,      \* the calls of fetchWithRetry, one for each Flight: where
                \* the call is and what it has done
  failedCalls,  \* how many calls of fetchWithRetry have thrown since the
                \* last response a call returned with (counted up to the
                \* threshold)
  wallet,       \* BettingProvider: the useState values as last rendered,
                \* [balance, activeBets, settledBets]
  updaters,     \* the calls whose updaters React has not applied yet
  storage,      \* localStorage: the item under STORAGE_KEY, Null if none
  card          \* one MatchCard: its state and what its last render saw

vars ==
  <<simulations, pending, args, result, call, CIRCUIT_BREAKER, now, fetches,
    failedCalls, wallet, updaters, storage, card>>

storeVars == <<simulations, pending, args, result, call>>

serviceVars == <<CIRCUIT_BREAKER, now, fetches, failedCalls>>

walletVars == <<wallet, updaters, storage>>

(***************************************************************************)
(* The state of the data service, of the wallet and of a match card when   *)
(* the page has loaded                                                     *)
(***************************************************************************)
\* the calls of fetchWithRetry that can be in flight at once
MaxFlights == 2

Flights == 1..MaxFlights

\* a Flight that has not called yet
NotCalled ==
  [phase |-> "idle", retries |-> 0, attempt |-> 0, requests |-> 0,
   admitted |-> "none", response |-> "none"]

InitService ==
  /\ CIRCUIT_BREAKER = [failures |-> 0, lastFailureTime |-> Null, state |-> "CLOSED"]
  /\ now = 0
  /\ fetches = [f \in Flights |-> NotCalled]
  /\ failedCalls = 0

INITIAL_BALANCE == QInt(1000)

\* useState(INITIAL_BALANCE), useState([]), useState([])
InitialWallet ==
  [balance |-> INITIAL_BALANCE, activeBets |-> <<>>, settledBets |-> <<>>]

\* JSON.parse(JSON.stringify(x)) of a number: one that is not finite is
\* written as null, which is falsy as NaN is
JSONNumber(q) == IF IsFinite(q) THEN q ELSE NaN

\* The item the save effect writes for a wallet, as JSON.parse reads it:
\* strings, arrays and finite numbers come back as they were (lastUpdated
\* is not read again and left out)
StoredData(w) ==
  [balance |-> JSONNumber(w.balance),
   activeBets |-> [i \in DOMAIN w.activeBets |->
                    [w.activeBets[i] EXCEPT !.stake = JSONNumber(@)]],
   settledBets |-> [i \in DOMAIN w.settledBets |->
                     [w.settledBets[i] EXCEPT !.stake = JSONNumber(@)]]]

\* the load effect: data.balance || INITIAL_BALANCE, data.activeBets || []
\* (an array is truthy), data.settledBets || []
LoadedWallet(stored) ==
  IF stored = Null THEN InitialWallet
  ELSE [balance |-> IF IsNaN(stored.balance) \/ stored.balance = QInt(0)
                    THEN INITIAL_BALANCE ELSE stored.balance,
        activeBets |-> stored.activeBets,
        settledBets |-> stored.settledBets]

\* the provider has mounted on a browser without an item: the save effect
\* has written the initial wallet
InitWallet ==
  /\ wallet = InitialWallet
  /\ updaters = <<>>
  /\ storage = StoredData(InitialWallet)

\* The card of a match when it has mounted and rendered: no match data, no
\* prediction, no request under way.  rendered is what the last render
\* saw, which is what the handlers and the effect of that render read:
\* its matchData and loading, whether it had a prediction, the value of
\* simulation and the object that value is.  An object is known by its
\* reference: <<"record", n>> is the n-th record object the store has made
\* for the match, <<"default", n>> an object getDefaultSimulation has made;
\* of the latter only the one of the last render is remembered, so n
\* alternates.  records counts the record objects made for the match,
\* changes the operations on the store, captured is the simulation that
\* the request under way closed over, recomputed says that the effect of
\* the last render has run the prediction, and scheduled that state has
\* been set since the last render.
NewCard(matchId) ==
  [match |-> matchId, matchData |-> Null, loading |-> FALSE, modalOpen |-> FALSE,
   fetching |-> FALSE, captured |-> getDefaultSimulation,
   rendered |-> [matchData |-> Null, predicted |-> FALSE, loading |-> FALSE,
                 simulation |-> getDefaultSimulation, reference |-> <<"default", 0>>],
   records |-> 0, changes |-> 0, recomputed |-> FALSE, scheduled |-> FALSE]

InitCard == card = NewCard("m1")

NoCall == <<>>

NoResult == [none |-> TRUE]

\* one call predictMatch(homeTeamStats, awayTeamStats, leagueAverage, modifiers)
PredictMatch(homeTeamStats, awayTeamStats, leagueAverage, modifiers) ==
  /\ args' = <<homeTeamStats, awayTeamStats, leagueAverage, modifiers>>
  /\ result' = PredictMemo[<<homeTeamStats, awayTeamStats, leagueAverage, modifiers>>]

(***************************************************************************)
(* The engine alone: predictMatch called with any arguments                *)
(***************************************************************************)
InitEngine ==
  /\ simulations = <<>>
  /\ pending = <<>>
  /\ args = NoCall
  /\ result = NoResult
  /\ call = NoCall
  /\ InitService /\ InitWallet /\ InitCard

NextEngine ==
  \E a \in ArgSpace :
    /\ PredictMatch(a[1], a[2], a[3], a[4])
    /\ UNCHANGED <<simulations, pending, call>>
    /\ UNCHANGED <<serviceVars, walletVars, card>>

SpecEngine == InitEngine /\ [][NextEngine]_vars

(***************************************************************************)
(* SimulationProvider: the updaters its operations give to setSimulations  *)
(***************************************************************************)
\* simulations[matchId] || getDefaultSimulation()
getSimulation(matchId) ==
  IF matchId \in DOMAIN simulations THEN simulations[matchId]
  ELSE getDefaultSimulation

\* the object as it would be without ...prev
PutAlone(prev, matchId, record) == [id \in {matchId} |-> record]

\* { ...prev, [matchId]: record }
Put(prev, matchId, record) ==
  [id \in DOMAIN prev \cup {matchId} |-> IF id = matchId THEN record ELSE prev[id]]

\* prev => ({ ...prev, [matchId]: { ...getDefaultSimulation(), ...prev[matchId],
\*                                  ...updates } })
updateSimulationUpdater(prev, matchId, updates) ==
  Put(prev, matchId,
      Spread(Spread(getDefaultSimulation,
                    IF matchId \in DOMAIN prev THEN prev[matchId] ELSE <<>>),
             updates))

\* the updater as it would be if it returned an empty object
resetEverySimulation(prev, matchId) == <<>>

\* prev => { const newState = { ...prev }; delete newState[matchId]; ... }
resetSimulationUpdater(prev, matchId) ==
  [id \in DOMAIN prev \ {matchId} |-> prev[id]]

\* prev[matchId] || getDefaultSimulation()
Current(prev, matchId) ==
  IF matchId \in DOMAIN prev THEN prev[matchId] ELSE getDefaultSimulation

\* the updater as it would be without ...current
toggleParameterAlone(prev, matchId, parameter) ==
  Put(prev, matchId, [p \in {parameter} |-> ~Current(prev, matchId)[parameter]])

\* prev => ({ ...prev, [matchId]: { ...current, [parameter]: !current[parameter] } })
toggleParameterUpdater(prev, matchId, parameter) ==
  Put(prev, matchId,
      Spread(Current(prev, matchId),
             [p \in {parameter} |-> ~Current(prev, matchId)[parameter]]))

\* prev => ({ ...prev, [matchId]: { ...current, [parameter]: value } })
setParameterUpdater(prev, matchId, parameter, value) ==
  Put(prev, matchId, Spread(Current(prev, matchId), [p \in {parameter} |-> value]))

\* the calls of the four operations, as [op |-> ..., matchId |-> ..., ...]
Calls ==
  {[op |-> "updateSimulation", matchId |-> id, updates |-> u] :
     id \in MatchIds, u \in Updates}
  \cup {[op |-> "resetSimulation", matchId |-> id] : id \in MatchIds}
  \cup {[op |-> "toggleParameter", matchId |-> id, parameter |-> p] :
          id \in MatchIds, p \in ToggleParameters}
  \cup {[op |-> "setParameter", matchId |-> id, parameter |-> x[1], value |-> x[2]] :
          id \in MatchIds, x \in SetParameters}

\* the updater that the call c gives to setSimulations, applied to prev
Updater(prev, c) ==
  CASE c.op = "updateSimulation" -> updateSimulationUpdater(prev, c.matchId, c.updates)
    [] c.op = "resetSimulation"  -> resetSimulationUpdater(prev, c.matchId)
    [] c.op = "toggleParameter"  -> toggleParameterUpdater(prev, c.matchId, c.parameter)
    [] c.op = "setParameter"     ->
         setParameterUpdater(prev, c.matchId, c.parameter, c.value)

(***************************************************************************)
(* SimulationProvider and the cards that predict from it, every update     *)
(* rendered before the next operation                                      *)
(***************************************************************************)
updateSimulation(matchId, updates) ==
  /\ simulations' = updateSimulationUpdater(simulations, matchId, updates)
  /\ UNCHANGED <<pending, args, result, call>>
  /\ UNCHANGED <<serviceVars, walletVars, card>>

resetSimulation(matchId) ==
  /\ simulations' = resetSimulationUpdater(simulations, matchId)
  /\ UNCHANGED <<pending, args, result, call>>
  /\ UNCHANGED <<serviceVars, walletVars, card>>

toggleParameter(matchId, parameter) ==
  /\ simulations' = toggleParameterUpdater(simulations, matchId, parameter)
  /\ UNCHANGED <<pending, args, result, call>>
  /\ UNCHANGED <<serviceVars, walletVars, card>>

setParameter(matchId, parameter, value) ==
  /\ simulations' = setParameterUpdater(simulations, matchId, parameter, value)
  /\ UNCHANGED <<pending, args, result, call>>
  /\ UNCHANGED <<serviceVars, walletVars, card>>

\* runPrediction once matchData is there: the modifiers of the match's
\* parameters go to predictMatch
runPrediction(matchId) ==
  /\ PredictMatch(matchData[matchId].homeStats, matchData[matchId].awayStats,
                  matchData[matchId].leagueAverage,
                  calculateModifiers(getSimulation(matchId)))
  /\ UNCHANGED <<simulations, pending, call>>
  /\ UNCHANGED <<serviceVars, walletVars, card>>

Init ==
  /\ simulations = <<>>
  /\ pending = <<>>
  /\ args = NoCall
  /\ result = NoResult
  /\ call = NoCall
  /\ InitService /\ InitWallet /\ InitCard

Next ==
  \E matchId \in MatchIds :
    \/ \E updates \in Updates : updateSimulation(matchId, updates)
    \/ resetSimulation(matchId)
    \/ \E parameter \in ToggleParameters : toggleParameter(matchId, parameter)
    \/ \E setting \in SetParameters : setParameter(matchId, setting[1], setting[2])
    \/ runPrediction(matchId)

Spec == Init /\ [][Next]_vars

(***************************************************************************)
(* SimulationProvider when operations are called before React renders:     *)
(* setSimulations queues each updater, and the render applies the queued   *)
(* updaters in the order of the calls, each to the state the one before it *)
(* returned                                                                *)
(***************************************************************************)
\* the updaters React holds at most before it renders
MaxPending == 2

\* an event handler calls one of the operations
Issue(c) ==
  /\ Len(pending) < MaxPending
  /\ pending' = Append(pending, c)
  /\ UNCHANGED <<simulations, args, result, call>>
  /\ UNCHANGED <<serviceVars, walletVars, card>>

\* the state after the updaters of the calls cs, applied to prev in order
RECURSIVE Reduce(_, _)
Reduce(prev, cs) ==
  IF cs = <<>> THEN prev ELSE Reduce(Updater(prev, Head(cs)), Tail(cs))

Render ==
  /\ pending # <<>>
  /\ simulations' = Reduce(simulations, pending)
  /\ pending' = <<>>
  /\ UNCHANGED <<args, result, call>>
  /\ UNCHANGED <<serviceVars, walletVars, card>>

InitBatch ==
  /\ simulations = <<>>
  /\ pending = <<>>
  /\ args = NoCall
  /\ result = NoResult
  /\ call = NoCall
  /\ InitService /\ InitWallet /\ InitCard

NextBatch ==
  \/ \E c \in Calls : Issue(c)
  \/ Render

SpecBatch == InitBatch /\ [][NextBatch]_vars

(***************************************************************************)
(* OddsUtils.js: decimalToProbability and detectValue                      *)
(***************************************************************************)
\* 0 for odds <= 1 (false for NaN), else
\* parseFloat(((1 / decimalOdds) * 100).toFixed(2))
decimalToProbability(decimalOdds) ==
  IF QLe(decimalOdds, QInt(1)) THEN QInt(0)
  ELSE QRoundTo(QMul(QDiv(QInt(1), decimalOdds), QInt(100)), 100)

\* !odds for a number: it is 0 or NaN
Falsy(odds) == IsNaN(odds) \/ odds = QInt(0)

\* the comparison as it would be with >= for >
detectValueOrEqual(bookieOdds, modelOdds) ==
  IF Falsy(bookieOdds) \/ Falsy(modelOdds) THEN [hasValue |-> FALSE, edge |-> QInt(0)]
  ELSE LET bookieProbability == decimalToProbability(bookieOdds)
           modelProbability == decimalToProbability(modelOdds)
           edge == QSub(modelProbability, bookieProbability)
       IN  [hasValue |-> QGe(bookieOdds, modelOdds), edge |-> QRoundTo(edge, 100)]

detectValue(bookieOdds, modelOdds) ==
  IF Falsy(bookieOdds) \/ Falsy(modelOdds) THEN [hasValue |-> FALSE, edge |-> QInt(0)]
  ELSE LET bookieProbability == decimalToProbability(bookieOdds)
           modelProbability == decimalToProbability(modelOdds)
           edge == QSub(modelProbability, bookieProbability)
       IN  [hasValue |-> QGt(bookieOdds, modelOdds), edge |-> QRoundTo(edge, 100)]

(***************************************************************************)
(* VerdictBadge.jsx: calculateVerdict.  A team is named by its side, and   *)
(* the subtext is its template with the numbers it prints (toFixed(1)).    *)
(***************************************************************************)
\* the verdict as it would be with the goal fest looked for first
calculateVerdictGoalsFirst(prediction) ==
  LET homeWin == prediction.homeWin
      awayWin == prediction.awayWin
      expectedGoals == prediction.expectedGoals
      totalGoals == QAdd(expectedGoals.home, expectedGoals.away)
  IN  IF QGt(totalGoals, <<7, 2>>)
      THEN [type |-> "goalfest", headline |-> <<"GOAL FEST INCOMING">>,
            subtext |-> <<QRoundTo(totalGoals, 10), "goals expected">>]
      ELSE IF QGt(homeWin, QInt(60)) /\ QLt(expectedGoals.away, <<1, 2>>)
      THEN [type |-> "dominant", headline |-> <<"DOMINANT", "home", "WIN">>,
            subtext |-> <<QRoundTo(homeWin, 10), "Clean sheet likely">>]
      ELSE IF QGt(awayWin, QInt(60)) /\ QLt(expectedGoals.home, <<1, 2>>)
      THEN [type |-> "dominant", headline |-> <<"DOMINANT", "away", "WIN">>,
            subtext |-> <<QRoundTo(awayWin, 10), "Clean sheet likely">>]
      ELSE [type |-> "clear", headline |-> <<"SLIGHT EDGE">>, subtext |-> <<>>]

\* the verdict as it would be if a favourite needed more than 60 per cent
calculateVerdictFavoredAboveSixty(prediction) ==
  LET homeWin == prediction.homeWin
      draw == prediction.draw
      awayWin == prediction.awayWin
      expectedGoals == prediction.expectedGoals
      totalGoals == QAdd(expectedGoals.home, expectedGoals.away)
      homeCleanSheet == QLt(expectedGoals.away, <<1, 2>>)
      awayCleanSheet == QLt(expectedGoals.home, <<1, 2>>)
      winner == IF QGt(homeWin, awayWin) THEN "home" ELSE "away"
      maxProb == QMax(QMax(homeWin, draw), awayWin)
  IN  IF QGt(homeWin, QInt(60)) /\ homeCleanSheet
      THEN [type |-> "dominant", headline |-> <<"DOMINANT", "home", "WIN">>,
            subtext |-> <<QRoundTo(homeWin, 10), "Clean sheet likely">>]
      ELSE IF QGt(awayWin, QInt(60)) /\ awayCleanSheet
      THEN [type |-> "dominant", headline |-> <<"DOMINANT", "away", "WIN">>,
            subtext |-> <<QRoundTo(awayWin, 10), "Clean sheet likely">>]
      ELSE IF QGt(totalGoals, <<7, 2>>)
      THEN [type |-> "goalfest", headline |-> <<"GOAL FEST INCOMING">>,
            subtext |-> <<QRoundTo(totalGoals, 10), "goals expected">>]
      ELSE IF QGt(draw, QInt(35))
      THEN [type |-> "deadlock", headline |-> <<"DEADLOCK LIKELY">>,
            subtext |-> <<QRoundTo(draw, 10), "chance of draw">>]
      ELSE IF QLt(maxProb, QInt(55)) \/ QLt(QAbs(QSub(homeWin, awayWin)), QInt(15))
      THEN [type |-> "tight", headline |-> <<"TIGHTLY CONTESTED">>,
            subtext |-> <<"Too close to call", winner, "slight edge">>]
      ELSE IF QGt(homeWin, awayWin) /\ QGt(homeWin, QInt(60))
      THEN [type |-> "clear", headline |-> <<"home", "FAVORED">>,
            subtext |-> <<QRoundTo(homeWin, 10), QRoundTo(expectedGoals.home, 10)>>]
      ELSE IF QGt(awayWin, homeWin) /\ QGt(awayWin, QInt(60))
      THEN [type |-> "clear", headline |-> <<"away", "FAVORED">>,
            subtext |-> <<QRoundTo(awayWin, 10), QRoundTo(expectedGoals.away, 10)>>]
      ELSE [type |-> "clear", headline |-> <<winner, "SLIGHT EDGE">>,
            subtext |-> <<QRoundTo(maxProb, 10), "probability">>]

calculateVerdict(prediction) ==
  LET homeWin == prediction.homeWin
      draw == prediction.draw
      awayWin == prediction.awayWin
      expectedGoals == prediction.expectedGoals
      totalGoals == QAdd(expectedGoals.home, expectedGoals.away)
      homeCleanSheet == QLt(expectedGoals.away, <<1, 2>>)
      awayCleanSheet == QLt(expectedGoals.home, <<1, 2>>)
      winner == IF QGt(homeWin, awayWin) THEN "home" ELSE "away"
      maxProb == QMax(QMax(homeWin, draw), awayWin)
  IN  IF QGt(homeWin, QInt(60)) /\ homeCleanSheet
      THEN [type |-> "dominant", headline |-> <<"DOMINANT", "home", "WIN">>,
            subtext |-> <<QRoundTo(homeWin, 10), "Clean sheet likely">>]
      ELSE IF QGt(awayWin, QInt(60)) /\ awayCleanSheet
      THEN [type |-> "dominant", headline |-> <<"DOMINANT", "away", "WIN">>,
            subtext |-> <<QRoundTo(awayWin, 10), "Clean sheet likely">>]
      ELSE IF QGt(totalGoals, <<7, 2>>)
      THEN [type |-> "goalfest", headline |-> <<"GOAL FEST INCOMING">>,
            subtext |-> <<QRoundTo(totalGoals, 10), "goals expected">>]
      ELSE IF QGt(draw, QInt(35))
      THEN [type |-> "deadlock", headline |-> <<"DEADLOCK LIKELY">>,
            subtext |-> <<QRoundTo(draw, 10), "chance of draw">>]
      ELSE IF QLt(maxProb, QInt(55)) \/ QLt(QAbs(QSub(homeWin, awayWin)), QInt(15))
      THEN [type |-> "tight", headline |-> <<"TIGHTLY CONTESTED">>,
            subtext |-> <<"Too close to call", winner, "slight edge">>]
      ELSE IF QGt(homeWin, awayWin) /\ QGt(homeWin, QInt(50))
      THEN [type |-> "clear", headline |-> <<"home", "FAVORED">>,
            subtext |-> <<QRoundTo(homeWin, 10), QRoundTo(expectedGoals.home, 10)>>]
      ELSE IF QGt(awayWin, homeWin) /\ QGt(awayWin, QInt(50))
      THEN [type |-> "clear", headline |-> <<"away", "FAVORED">>,
            subtext |-> <<QRoundTo(awayWin, 10), QRoundTo(expectedGoals.away, 10)>>]
      ELSE [type |-> "clear", headline |-> <<winner, "SLIGHT EDGE">>,
            subtext |-> <<QRoundTo(maxProb, 10), "probability">>]

(***************************************************************************)
(* The functions that read a prediction, the odds typed in and the         *)
(* parameters of a match, called with any of their arguments               *)
(***************************************************************************)
\* what calculateVerdict reads of a prediction, for percentages in steps of
\* 5 that add up to 100 and expected goals of 1.5 and 1
PercentageGrid ==
  {[homeWin |-> QInt(5 * p[1]), draw |-> QInt(5 * p[2]),
    awayWin |-> QInt(100 - 5 * p[1] - 5 * p[2]),
    expectedGoals |-> [home |-> <<3, 2>>, away |-> QInt(1)]] :
     p \in {q \in (0..20) \X (0..20) : q[1] + q[2] <= 20}}

\* the predictions a badge is given
Predictions ==
  {PredictMemo[a] : a \in {b \in DOMAIN PredictMemo : PredictMemo[b] # MissingStatsError}}
    \cup PercentageGrid

\* parseFloat of what is typed into an odds field, and the fair odds of a
\* prediction
BookieOdds == {NaN, QInt(0), QInt(1), <<3, 2>>, QInt(2), <<5, 2>>}

ModelOdds == {NaN, QInt(0), QInt(1), <<3, 2>>, QInt(2), <<10, 3>>}

\* the parameter records of a match, with a stance that is not in the table
Stances == {"defensive", "balanced", "attacking", "gegenpress"}

RawSimulations ==
  {[homeKeyPlayerMissing |-> hk, awayKeyPlayerMissing |-> ak, homeFortress |-> hf,
    formWeight |-> QInt(40), homeMotivation |-> hm, awayMotivation |-> am,
    weatherImpact |-> w, homeTacticalStyle |-> hs, awayTacticalStyle |-> as] :
     hk \in BOOLEAN, ak \in BOOLEAN, hf \in BOOLEAN,
     hm \in {QInt(80), QInt(100)}, am \in {QInt(100), QInt(120)},
     w \in {QInt(0 - 30), QInt(0 - 15), QInt(0), QInt(20)},
     hs \in Stances, as \in Stances}

\* the three functions tabulated over these arguments
VerdictMemo == [prediction \in Predictions |-> calculateVerdict(prediction)]

ValueMemo == [odds \in BookieOdds \X ModelOdds |-> detectValue(odds[1], odds[2])]

ModifiersMemo == [simulation \in RawSimulations |-> calculateModifiers(simulation)]

Called(fn, input, output) ==
  /\ call' = [fn |-> fn, input |-> input, output |-> output]
  /\ UNCHANGED <<simulations, pending, args, result>>
  /\ UNCHANGED <<serviceVars, walletVars, card>>

VerdictBadge(prediction) ==
  Called("calculateVerdict", prediction, VerdictMemo[prediction])

DetectValue(bookieOdds, modelOdds) ==
  Called("detectValue", <<bookieOdds, modelOdds>>, ValueMemo[<<bookieOdds, modelOdds>>])

CalculateModifiers(simulation) ==
  Called("calculateModifiers", simulation, ModifiersMemo[simulation])

InitHelpers ==
  /\ simulations = <<>>
  /\ pending = <<>>
  /\ args = NoCall
  /\ result = NoResult
  /\ call = NoCall
  /\ InitService /\ InitWallet /\ InitCard

NextHelpers ==
  \/ \E prediction \in Predictions : VerdictBadge(prediction)
  \/ \E bookieOdds \in BookieOdds, modelOdds \in ModelOdds :
       DetectValue(bookieOdds, modelOdds)
  \/ \E simulation \in RawSimulations : CalculateModifiers(simulation)

SpecHelpers == InitHelpers /\ [][NextHelpers]_vars

(***************************************************************************)
(* The data service (the footballApi part of BettingSlip.jsx): the circuit *)
(* breaker and fetchWithRetry.  A call runs without interruption from one  *)
(* await to the next: up to its request, from a response to the sleep     *)
(* before a retry or to the reading of the body, and from there to its     *)
(* end.  Other calls and the clock move in between.                        *)
(***************************************************************************)
threshold == 3

timeout == 30000

maxRetries == 2

\* testConnection calls fetchWithRetry(url, {}, 1)
testRetries == 1

\* the clock is read every ClockStep milliseconds, MaxClockSteps times
ClockStep == 15000

MaxClockSteps == 4

\* What a request ends with: a status, or no response at all (fetch
\* rejects with 'Failed to fetch').  A 200 has a body that is JSON or one
\* that is not (a page of HTML); 400 stands for the statuses the code does
\* not name.
Responses ==
  {"200", "200 not JSON", "500", "503", "429", "403", "404", "400", "Failed to fetch"}

\* response.ok
Ok(response) == response \in {"200", "200 not JSON"}

\* the status codes in the message of the error thrown for a response
\* (for 400, the message of the body or the status text)
CodesInMessage(response) ==
  IF response \in {"500", "503", "429", "403", "404"} THEN {response} ELSE {}

\* Date.now() - CIRCUIT_BREAKER.lastFailureTime (null counts as 0)
timeSinceLastFailure(breaker, t) ==
  t - (IF breaker.lastFailureTime \in Nat THEN breaker.lastFailureTime ELSE 0)

\* isCircuitOpen(): what it returns and the breaker it leaves
isCircuitOpen(breaker, t) ==
  IF breaker.state = "OPEN"
  THEN IF timeSinceLastFailure(breaker, t) > timeout
       THEN [open |-> FALSE, breaker |-> [breaker EXCEPT !.state = "HALF_OPEN"]]
       ELSE [open |-> TRUE, breaker |-> breaker]
  ELSE [open |-> FALSE, breaker |-> breaker]

recordFailure(breaker, t) ==
  [failures |-> breaker.failures + 1,
   lastFailureTime |-> t,
   state |-> IF breaker.failures + 1 >= threshold THEN "OPEN" ELSE breaker.state]

recordSuccess(breaker) == [breaker EXCEPT !.failures = 0, !.state = "CLOSED"]

\* testConnection, before it calls fetchWithRetry
resetForTest(breaker, t) ==
  IF breaker.state = "OPEN" /\ timeSinceLastFailure(breaker, t) > timeout
  THEN [breaker EXCEPT !.state = "HALF_OPEN",
                       !.failures = IF breaker.failures - 1 > 0
                                    THEN breaker.failures - 1 ELSE 0]
  ELSE breaker

\* a Flight whose latest call has ended (or that has not called yet)
Free(f) == fetches[f].phase \in {"idle", "returned", "threw", "refused"}

\* one more call has thrown
OneMoreFailedCall ==
  failedCalls' = IF failedCalls < threshold THEN failedCalls + 1 ELSE failedCalls

\* fetchWithRetry from its first line to its first request, for the
\* breaker as its caller leaves it
Enter(f, breaker, retries) ==
  LET check == isCircuitOpen(breaker, now)
  IN  /\ Free(f)
      /\ CIRCUIT_BREAKER' = check.breaker
      /\ IF check.open
         THEN /\ fetches' = [fetches EXCEPT ![f] =
                   [NotCalled EXCEPT !.phase = "refused", !.retries = retries]]
              /\ OneMoreFailedCall
         ELSE /\ fetches' = [fetches EXCEPT ![f] =
                   [phase |-> "fetching", retries |-> retries, attempt |-> 0,
                    requests |-> 1, admitted |-> check.breaker.state,
                    response |-> "none"]]
              /\ UNCHANGED failedCalls
      /\ UNCHANGED <<now, storeVars, walletVars, card>>

\* fetchMatches, fetchStandings, fetchTeamMatches: fetchWithRetry(url)
FetchWithRetry(f) == Enter(f, CIRCUIT_BREAKER, maxRetries)

TestConnection(f) == Enter(f, resetForTest(CIRCUIT_BREAKER, now), testRetries)

\* recordFailure(); throw error
Fail(f, response) ==
  /\ CIRCUIT_BREAKER' = recordFailure(CIRCUIT_BREAKER, now)
  /\ fetches' = [fetches EXCEPT ![f].phase = "threw", ![f].response = response]
  /\ OneMoreFailedCall

\* the catch block, for an error whose message has the codes
Catch(f, response, codes) ==
  IF codes \cap {"403", "404"} # {} THEN Fail(f, response)
  ELSE IF fetches[f].attempt < fetches[f].retries /\ codes \cap {"500", "503"} # {}
  THEN /\ fetches' = [fetches EXCEPT ![f].phase = "sleeping", ![f].response = response]
       /\ UNCHANGED <<CIRCUIT_BREAKER, failedCalls>>
  ELSE Fail(f, response)

\* the request of a call ends: the status checks, and recordSuccess or the
\* catch block
Respond(f, response) ==
  /\ fetches[f].phase = "fetching"
  /\ IF Ok(response)
     THEN /\ CIRCUIT_BREAKER' = recordSuccess(CIRCUIT_BREAKER)
          /\ fetches' = [fetches EXCEPT ![f].phase = "parsing", ![f].response = response]
          /\ failedCalls' = IF response = "200" THEN 0 ELSE failedCalls
     ELSE Catch(f, response, CodesInMessage(response))
  /\ UNCHANGED <<now, storeVars, walletVars, card>>

\* return await response.json(): the body is JSON and the call returns, or
\* it is not and the SyntaxError goes to the catch block
Parsed(f) ==
  /\ fetches[f].phase = "parsing"
  /\ IF fetches[f].response = "200"
     THEN /\ fetches' = [fetches EXCEPT ![f].phase = "returned"]
          /\ UNCHANGED <<CIRCUIT_BREAKER, failedCalls>>
     ELSE Catch(f, fetches[f].response, {})
  /\ UNCHANGED <<now, storeVars, walletVars, card>>

\* await sleep(delay); continue: the next attempt and its request
Retry(f) ==
  /\ fetches[f].phase = "sleeping"
  /\ fetches' = [fetches EXCEPT ![f].phase = "fetching",
                                ![f].attempt = @ + 1, ![f].requests = @ + 1]
  /\ UNCHANGED <<CIRCUIT_BREAKER, failedCalls, now, storeVars, walletVars, card>>

\* time passes
Tick ==
  /\ now + ClockStep <= MaxClockSteps * ClockStep
  /\ now' = now + ClockStep
  /\ UNCHANGED <<CIRCUIT_BREAKER, fetches, failedCalls, storeVars, walletVars, card>>

NextService ==
  \/ \E f \in Flights : FetchWithRetry(f)
  \/ \E f \in Flights : TestConnection(f)
  \/ \E f \in Flights, response \in Responses : Respond(f, response)
  \/ \E f \in Flights : Parsed(f)
  \/ \E f \in Flights : Retry(f)
  \/ Tick

SpecService == Init /\ [][NextService]_vars

(***************************************************************************)
(* The wallet (the BettingContext part of BettingSlip.jsx).  The handlers  *)
(* read balance and activeBets as the last render left them and give React *)
(* updaters, which the next render applies in the order of the calls;      *)
(* after a render that changed the wallet the save effect writes it.       *)
(***************************************************************************)
calculatePayout(stake, decimalOdds) == QRoundTo(QMul(stake, decimalOdds), 100)

\* throw new Error('Insufficient balance')
InsufficientBalance == [error |-> "Insufficient balance"]

\* the bets the slip offers, and the bets a session places at most (the
\* id of a bet is Date.now() when it is placed, a millisecond after the
\* bet before it at the earliest)
Stakes == {QInt(600), QInt(1000)}

DecimalOdds == {<<3, 2>>}

MaxBets == 2

BetIds == 0..(MaxBets - 1)

\* activeBets.find(b => b.id === betId), a sequence of no or one bet
Find(bets, betId) ==
  LET found == SelectSeq(bets, LAMBDA b : b.id = betId)
  IN  IF found = <<>> THEN <<>> ELSE <<found[1]>>

\* prev.filter(b => b.id !== betId)
Without(bets, betId) == SelectSeq(bets, LAMBDA b : b.id # betId)

\* the three updaters of one call, applied to the wallet
ApplyUpdaters(prev, u) ==
  CASE u.op = "placeBet" ->
         [prev EXCEPT !.activeBets = Append(@, u.newBet),
                      !.balance = QSub(@, u.newBet.stake)]
    [] u.op = "settleBet" ->
         [prev EXCEPT !.activeBets = Without(@, u.betId),
                      !.settledBets = <<u.settledBet>> \o @,
                      !.balance = QAdd(@, u.settledBet.payout)]
    [] u.op = "cancelBet" ->
         [prev EXCEPT !.activeBets = Without(@, u.betId),
                      !.balance = QAdd(@, u.stake)]
    [] u.op = "resetWallet" -> InitialWallet

RECURSIVE Rendered(_, _)
Rendered(prev, us) ==
  IF us = <<>> THEN prev ELSE Rendered(ApplyUpdaters(prev, Head(us)), Tail(us))

\* a handler gives React the updaters of a call
Queue(u) ==
  /\ Len(updaters) < MaxPending
  /\ updaters' = Append(updaters, u)

placeBet(bet) ==
  /\ now < MaxBets
  /\ IF QGt(bet.stake, wallet.balance)
     THEN /\ call' = [fn |-> "placeBet", input |-> bet, output |-> InsufficientBalance]
          /\ UNCHANGED <<updaters, now>>
     ELSE LET newBet == [id |-> now, stake |-> bet.stake, odds |-> bet.odds,
                         status |-> "pending"]
          IN  /\ Queue([op |-> "placeBet", newBet |-> newBet])
              /\ call' = [fn |-> "placeBet", input |-> bet, output |-> newBet]
              /\ now' = now + 1
  /\ UNCHANGED <<wallet, storage, simulations, pending, args, result,
                 CIRCUIT_BREAKER, fetches, failedCalls, card>>

settleBet(betId, won) ==
  LET bet == Find(wallet.activeBets, betId)
      payout == IF won THEN calculatePayout(bet[1].stake, bet[1].odds) ELSE QInt(0)
  IN  /\ bet # <<>>
      /\ Queue([op |-> "settleBet", betId |-> betId,
                settledBet |-> [id |-> bet[1].id, stake |-> bet[1].stake,
                                odds |-> bet[1].odds,
                                status |-> IF won THEN "won" ELSE "lost",
                                payout |-> payout,
                                profit |-> QSub(payout, bet[1].stake)]])
      /\ UNCHANGED <<wallet, storage, storeVars, serviceVars, card>>

cancelBet(betId) ==
  LET bet == Find(wallet.activeBets, betId)
  IN  /\ bet # <<>>
      /\ Queue([op |-> "cancelBet", betId |-> betId, stake |-> bet[1].stake])
      /\ UNCHANGED <<wallet, storage, storeVars, serviceVars, card>>

resetWallet ==
  /\ Queue([op |-> "resetWallet"])
  /\ UNCHANGED <<wallet, storage, storeVars, serviceVars, card>>

\* React renders the provider with the updaters applied, and the save
\* effect writes the wallet
RenderWallet ==
  /\ updaters # <<>>
  /\ wallet' = Rendered(wallet, updaters)
  /\ updaters' = <<>>
  /\ storage' = StoredData(wallet')
  /\ UNCHANGED <<storeVars, serviceVars, card>>

\* The page is loaded again: the provider mounts with the initial wallet,
\* the load effect reads the item, the save effect writes the initial
\* wallet over it, and the render of what was read writes that.
Reload ==
  /\ updaters = <<>>
  /\ wallet' = LoadedWallet(storage)
  /\ storage' = StoredData(wallet')
  /\ UNCHANGED <<updaters, storeVars, serviceVars, card>>

NextWallet ==
  \/ \E stake \in Stakes, odds \in DecimalOdds : placeBet([stake |-> stake, odds |-> odds])
  \/ \E betId \in BetIds, won \in BOOLEAN : settleBet(betId, won)
  \/ \E betId \in BetIds : cancelBet(betId)
  \/ resetWallet
  \/ RenderWallet
  \/ Reload

SpecWallet == Init /\ [][NextWallet]_vars

(***************************************************************************)
(* MatchCard.jsx: one card, the store it reads and the renders of React    *)
(***************************************************************************)
\* the operations on the store that the user calls at most
MaxChanges == 2

\* setSimulations: one of the four operations of the store, rendered by the
\* provider.  The updater makes a new object for the record of its match
\* and keeps the objects of the other matches' records; the cards read the
\* context, so they render again.
Change(c) ==
  /\ card.changes < MaxChanges
  /\ simulations' = Updater(simulations, c)
  /\ card' = [card EXCEPT !.changes = @ + 1,
                          !.records = IF c.matchId = card.match /\ c.op # "resetSimulation"
                                      THEN @ + 1 ELSE @,
                          !.scheduled = TRUE]
  /\ UNCHANGED <<pending, args, result, call, serviceVars, walletVars>>

\* runPrediction when it has matchData: predictMatch with the modifiers of
\* simulation, then setPrediction unless predictMatch threw
Recalculate(data, simulation) ==
  PredictMatch(data.homeStats, data.awayStats, data.leagueAverage,
               calculateModifiers(simulation))

\* handlePredictClick, the button being enabled when the card was rendered
\* with loading false: the modal opens if there is a prediction, and
\* runPrediction is called if there is none, which asks for the match data
\* if the card has none
handlePredictClick ==
  /\ ~card.rendered.loading /\ ~card.loading
  /\ IF card.rendered.predicted
     THEN /\ card' = [card EXCEPT !.modalOpen = TRUE,
                                  !.scheduled = @ \/ ~card.modalOpen]
          /\ UNCHANGED <<args, result>>
     ELSE IF card.rendered.matchData = Null
     THEN /\ card' = [card EXCEPT !.loading = TRUE, !.fetching = TRUE,
                                  !.captured = card.rendered.simulation,
                                  !.scheduled = TRUE]
          /\ UNCHANGED <<args, result>>
     ELSE /\ Recalculate(card.rendered.matchData, card.rendered.simulation)
          /\ card' = [card EXCEPT !.scheduled = @ \/ result' # MissingStatsError]
  /\ UNCHANGED <<simulations, pending, call, serviceVars, walletVars>>

\* await getMatchPredictionData(...) returns data with both sides' stats:
\* setMatchData, predictMatch with the modifiers of the simulation that
\* runPrediction closed over, setPrediction, setModalOpen(true) and, in
\* finally, setLoading(false)
DataResolved ==
  /\ card.fetching
  /\ Recalculate(matchData[card.match], card.captured)
  /\ card' = [card EXCEPT !.matchData = matchData[card.match],
                          !.modalOpen = result' # MissingStatsError,
                          !.loading = FALSE, !.fetching = FALSE, !.scheduled = TRUE]
  /\ UNCHANGED <<simulations, pending, call, serviceVars, walletVars>>

\* the request throws, or its data lacks a side's stats: setError and
\* setLoading(false)
DataRejected ==
  /\ card.fetching
  /\ card' = [card EXCEPT !.loading = FALSE, !.fetching = FALSE, !.scheduled = TRUE]
  /\ UNCHANGED <<storeVars, serviceVars, walletVars>>

\* onClose={() => setModalOpen(false)}
closeModal ==
  /\ card.modalOpen
  /\ card' = [card EXCEPT !.modalOpen = FALSE, !.scheduled = TRUE]
  /\ UNCHANGED <<storeVars, serviceVars, walletVars>>

\* One render of the card and the effect that follows it.  simulation is
\* getSimulation(match.id): the record object of the store, or an object
\* getDefaultSimulation makes for this call.  runPrediction is made again
\* when matchData or simulation is not the object of the last render, and
\* the effect, which depends on the three, then runs: if (matchData)
\* runPrediction().
RenderCard ==
  /\ card.scheduled
  /\ LET reference ==
           IF card.match \in DOMAIN simulations THEN <<"record", card.records>>
           ELSE <<"default", IF card.rendered.reference = <<"default", 0>> THEN 1 ELSE 0>>
         effect == /\ \/ reference # card.rendered.reference
                      \/ card.matchData # card.rendered.matchData
                   /\ card.matchData # Null
     IN  /\ IF effect
            THEN Recalculate(card.matchData, getSimulation(card.match))
            ELSE UNCHANGED <<args, result>>
         /\ card' = [card EXCEPT
                       !.rendered = [matchData |-> card.matchData,
                                     predicted |-> result # NoResult,
                                     loading |-> card.loading,
                                     simulation |-> getSimulation(card.match),
                                     reference |-> reference],
                       !.recomputed = effect,
                       !.scheduled = effect /\ result' # MissingStatsError]
  /\ UNCHANGED <<simulations, pending, call, serviceVars, walletVars>>

InitCards ==
  /\ simulations = <<>>
  /\ pending = <<>>
  /\ args = NoCall
  /\ result = NoResult
  /\ call = NoCall
  /\ InitService /\ InitWallet
  /\ card \in {NewCard(matchId) : matchId \in MatchIds}

NextCard ==
  \/ \E c \in Calls : Change(c)
  \/ handlePredictClick
  \/ DataResolved
  \/ DataRejected
  \/ closeModal
  \/ RenderCard

SpecCard == InitCards /\ [][NextCard]_vars

\* React renders a component whose state has been set
LiveCard == SpecCard /\ WF_vars(RenderCard)

(***************************************************************************)
(* Properties of predictMatch.  Numbers are compared as JavaScript         *)
(* compares them: every comparison with NaN is false.                      *)
(***************************************************************************)
\* the latest call of predictMatch returned a prediction
Returned == args # NoCall /\ result # MissingStatsError

\* the expected goals of the latest call, before they are rounded
ExpectedGoals ==
  LET worked == expectedGoalsOf(args[1], args[2], args[3], args[4])
  IN  [home |-> worked.homeExpectedGoals, away |-> worked.awayExpectedGoals]

Positive(q) == QGt(q, QInt(0))

NotPositive(q) == QLe(q, QInt(0))

Outcomes == {"homeWin", "draw", "awayWin"}

\* homeWin + draw + awayWin of the result
OutcomeSum == QAdd(QAdd(result.homeWin, result.draw), result.awayWin)

SumsTo100 == QLe(QAbs(QSub(OutcomeSum, QInt(100))), <<1, 10>>)

\* C1: whenever both expected-goal values of a call are positive, the
\* returned homeWin, draw and awayWin add up to 100 give or take 0.1
C1_SumIs100 ==
  (Returned /\ Positive(ExpectedGoals.home) /\ Positive(ExpectedGoals.away))
    => SumsTo100

\* C2: whenever exactly one expected-goal value is <= 0 and the other is
\* > 0, the returned homeWin, draw and awayWin are numbers, not NaN
C2_OneSideWithoutGoals ==
  (Returned
   /\ \/ NotPositive(ExpectedGoals.home) /\ Positive(ExpectedGoals.away)
      \/ Positive(ExpectedGoals.home) /\ NotPositive(ExpectedGoals.away))
    => \A o \in Outcomes : ~IsNaN(result[o])

\* C3: whenever both expected-goal values are 0, the returned homeWin, draw
\* and awayWin are numbers: draw = 100 and the others 0, or all three 0
C3_NoGoalsAtAll ==
  (Returned /\ ExpectedGoals.home = QInt(0) /\ ExpectedGoals.away = QInt(0))
    => /\ \A o \in Outcomes : ~IsNaN(result[o])
       /\ \/ result.draw = QInt(100) /\ result.homeWin = QInt(0)
             /\ result.awayWin = QInt(0)
          \/ \A o \in Outcomes : result[o] = QInt(0)

\* a PredictionResult with every part of it
Complete(prediction) ==
  /\ DOMAIN prediction = {"homeWin", "draw", "awayWin", "fairOdds", "expectedGoals",
                          "strengths", "likelyScores", "insights", "confidence",
                          "radarData"}
  /\ DOMAIN prediction.fairOdds = {"home", "draw", "away"}
  /\ DOMAIN prediction.expectedGoals = {"home", "away"}
  /\ DOMAIN prediction.strengths =
       {"homeAttack", "awayAttack", "homeDefense", "awayDefense"}
  /\ prediction.confidence \in {"High", "Medium", "Low"}
  /\ Len(prediction.insights) >= 1
  /\ Len(prediction.radarData) = 5

\* C4: a call raises the missing-statistics error exactly when one of the
\* two statistics records is null; every other call (empty records, any
\* league average, modifiers null or with both sides) returns a complete
\* prediction
C4_RaisesOnlyOnMissingStatistics ==
  args # NoCall =>
    /\ result = MissingStatsError <=> (args[1] = Null \/ args[2] = Null)
    /\ (args[1] # Null /\ args[2] # Null) => Complete(result)

\* both records are empty objects and the call returned a complete prediction
C4_Witness ==
  /\ args # NoCall /\ args[1] = EmptyStats /\ args[2] = EmptyStats
  /\ Complete(result)

\* a == b for two numbers
SameNumber(a, b) == ~IsNaN(a) /\ ~IsNaN(b) /\ a = b

\* the arguments a with the two sides exchanged
Swapped(a) ==
  <<a[2], a[1], a[3],
    IF a[4] = Null THEN Null ELSE [home |-> a[4].away, away |-> a[4].home]>>

\* C5: a call that follows a call with the same arguments except that the
\* statistics and the modifiers of the two sides are exchanged returns the
\* homeWin that was awayWin, the awayWin that was homeWin and the same draw;
\* and a call with the same statistics on both sides and no modifiers
\* returns homeWin == awayWin
C5_SwapSymmetry ==
  /\ [][(Returned /\ args' = Swapped(args))
          => /\ SameNumber(result'.homeWin, result.awayWin)
             /\ SameNumber(result'.awayWin, result.homeWin)
             /\ SameNumber(result'.draw, result.draw)]_vars
  /\ []((Returned /\ args[1] = args[2] /\ args[4] = Null)
          => SameNumber(result.homeWin, result.awayWin))

\* b is a with a higher home.attackMultiplier and nothing else changed
RaisedHomeAttack(a, b) ==
  /\ a[4] # Null /\ b[4] # Null
  /\ a[1] = b[1] /\ a[2] = b[2] /\ a[3] = b[3]
  /\ a[4].away = b[4].away
  /\ a[4].home.defenseMultiplier = b[4].home.defenseMultiplier
  /\ a[4].home.formWeight = b[4].home.formWeight
  /\ QLt(a[4].home.attackMultiplier, b[4].home.attackMultiplier)

\* C6: a call that follows a call with the same arguments except for a
\* higher home.attackMultiplier returns a homeWin that is not lower
C6_HomeWinMonotone ==
  [][(Returned /\ RaisedHomeAttack(args, args'))
       => ~QLt(result'.homeWin, result.homeWin)]_vars

\* the call returned a homeWin above the one of the same call with a lower
\* home.attackMultiplier
C6_Witness ==
  /\ Returned
  /\ \E b \in ArgSpace :
       RaisedHomeAttack(b, args) /\ QGt(result.homeWin, PredictMemo[b].homeWin)

\* the probabilities of likelyScores
Likely(i) == result.likelyScores[i].probability

\* C8 as claimed, for results whose outcomes are numbers: likelyScores has
\* at most 5 entries, each with a probability strictly greater than that of
\* the entry after it
C8_StrictlyDescending ==
  (Returned /\ \A o \in Outcomes : ~IsNaN(result[o])) =>
    /\ Len(result.likelyScores) <= 5
    /\ \A i \in 1..(Len(result.likelyScores) - 1) : QGt(Likely(i), Likely(i + 1))

\* C8 as amended: likelyScores has at most 5 entries, and no entry has a
\* probability lower than that of the entry after it
C8_NeverAscending ==
  Returned =>
    /\ Len(result.likelyScores) <= 5
    /\ \A i \in 1..(Len(result.likelyScores) - 1) : ~QLt(Likely(i), Likely(i + 1))

\* two neighbours of likelyScores have the same positive probability and
\* two others have not
C8_Witness ==
  /\ Returned
  /\ \E i \in 1..(Len(result.likelyScores) - 1) :
       Likely(i) = Likely(i + 1) /\ QGt(Likely(i), QInt(0))
  /\ \E i \in 1..(Len(result.likelyScores) - 1) : QGt(Likely(i), Likely(i + 1))

\* the field of fairOdds that goes with an outcome
OddsOf == [homeWin |-> "home", draw |-> "draw", awayWin |-> "away"]

\* C9 as claimed, for results whose outcomes are numbers: the fair odds of
\* an outcome are 0 when the returned percentage is 0 and otherwise within
\* 0.01 of 100 / percentage
C9_OddsOfReturnedPercentage ==
  (Returned /\ \A o \in Outcomes : ~IsNaN(result[o])) =>
    \A o \in Outcomes :
      IF result[o] = QInt(0) THEN result.fairOdds[OddsOf[o]] = QInt(0)
      ELSE QLe(QAbs(QSub(result.fairOdds[OddsOf[o]], QDiv(QInt(100), result[o]))),
               <<1, 100>>)

\* the odds o and the percentage r come from one probability p: r is p
\* rounded to one decimal and o is 100 / p rounded to two, or 0 for p = 0
OddsAgree(r, o) ==
  IF IsNaN(r) \/ IsNaN(o) THEN IsNaN(r) /\ IsNaN(o)
  ELSE IF o = QInt(0) THEN r = QInt(0)
  ELSE /\ QLe(QMul(QSub(r, <<1, 20>>), QSub(o, <<1, 200>>)), QInt(100))
       /\ QGe(QMul(QAdd(r, <<1, 20>>), QAdd(o, <<1, 200>>)), QInt(100))

\* C9 as amended: the fair odds of an outcome are 0 only when the returned
\* percentage is 0, are NaN exactly when it is NaN, and otherwise satisfy
\* (percentage - 0.05) * (odds - 0.005) <= 100 <= (percentage + 0.05) * (odds + 0.005)
C9_OddsOfUnroundedPercentage ==
  Returned => \A o \in Outcomes : OddsAgree(result[o], result.fairOdds[OddsOf[o]])

\* an outcome is returned as 0 with fair odds that are not 0
C9_Witness ==
  /\ Returned
  /\ \E o \in Outcomes :
       result[o] = QInt(0) /\ QGt(result.fairOdds[OddsOf[o]], QInt(0))

(***************************************************************************)
(* Properties of the simulation store                                      *)
(***************************************************************************)
NeutralSide ==
  [attackMultiplier |-> QInt(1), defenseMultiplier |-> QInt(1), formWeight |-> <<2, 5>>]

\* C10: a prediction for a match without a stored record is made with the
\* default parameters and with the modifiers 1.0, 1.0 and 0.4 for both
\* sides, and one for a match whose record is the defaults with
\* homeKeyPlayerMissing set is made with home.attackMultiplier 0.7
C10_DefaultsAreNeutral ==
  [][\A id \in MatchIds :
       runPrediction(id) =>
         /\ id \notin DOMAIN simulations =>
              /\ getSimulation(id) = getDefaultSimulation
              /\ args'[4] = [home |-> NeutralSide, away |-> NeutralSide]
         /\ getSimulation(id) =
              Spread(getDefaultSimulation, [homeKeyPlayerMissing |-> TRUE])
              => args'[4].home.attackMultiplier = <<7, 10>>]_vars

\* the modifiers n are the modifiers m with another formWeight
OnlyFormWeightDiffers(m, n) ==
  /\ m.home.formWeight # n.home.formWeight
  /\ \A side \in {"home", "away"} :
       /\ m[side].attackMultiplier = n[side].attackMultiplier
       /\ m[side].defenseMultiplier = n[side].defenseMultiplier

SameRecord(before, after, id) ==
  /\ id \in DOMAIN before <=> id \in DOMAIN after
  /\ id \in DOMAIN before => after[id] = before[id]

\* C12: resetSimulation(m) leaves the store without a record of m, so that
\* getSimulation(m) is the defaults, and with the records of all the other
\* matches as they were
C12_ResetRemovesTheRecord ==
  [][\A id \in MatchIds :
       resetSimulation(id) =>
         /\ id \notin DOMAIN simulations'
         /\ Current(simulations', id) = getDefaultSimulation
         /\ \A other \in MatchIds \ {id} : SameRecord(simulations, simulations', other)]_vars

\* the record of m1 is gone (the latest prediction of its card was made
\* with modifiers that its defaults do not give) and m2 has its record
C12_Witness ==
  /\ Returned
  /\ args[1] = matchData["m1"].homeStats
  /\ args[4] # calculateModifiers(getDefaultSimulation)
  /\ "m1" \notin DOMAIN simulations
  /\ "m2" \in DOMAIN simulations
  /\ simulations["m2"] # getDefaultSimulation

\* the record of match id after an operation that wrote the fields of the
\* record written (its values) and no other
Written(id, written) ==
  /\ id \in DOMAIN simulations'
  /\ DOMAIN simulations'[id] = DOMAIN getDefaultSimulation
  /\ \A f \in DOMAIN getDefaultSimulation :
       simulations'[id][f] =
         IF f \in DOMAIN written THEN written[f] ELSE getSimulation(id)[f]
  /\ \A other \in MatchIds \ {id} : SameRecord(simulations, simulations', other)

\* C13: updateSimulation, setParameter and toggleParameter give the record
\* of their match the fields of the update, the value set or the negated
\* flag; its other fields keep the value they had (the default, for a match
\* without a record) and the other matches keep their records
C13_OnlyTheNamedFieldsChange ==
  [][\A id \in MatchIds :
       /\ \A updates \in Updates :
            updateSimulation(id, updates) => Written(id, updates)
       /\ \A setting \in SetParameters :
            setParameter(id, setting[1], setting[2])
              => Written(id, [p \in {setting[1]} |-> setting[2]])
       /\ \A parameter \in ToggleParameters :
            toggleParameter(id, parameter)
              => Written(id, [p \in {parameter} |-> ~getSimulation(id)[parameter]])]_vars

\* the three operations have written to m1, each keeping what the others
\* wrote, and m2 has a record of its own
C13_Witness ==
  /\ "m1" \in DOMAIN simulations /\ "m2" \in DOMAIN simulations
  /\ simulations["m1"] =
       Spread(getDefaultSimulation,
              [homeKeyPlayerMissing |-> TRUE, homeFortress |-> TRUE,
               formWeight |-> QInt(60)])
  /\ simulations["m2"] = Spread(getDefaultSimulation, [homeFortress |-> TRUE])

\* the calls of cs but the last
Front(cs) == SubSeq(cs, 1, Len(cs) - 1)

\* whether match id has a record once the calls cs are applied to prev: the
\* last call for the match decides
RECURSIVE HasRecordAfter(_, _, _)
HasRecordAfter(prev, cs, id) ==
  IF cs = <<>> THEN id \in DOMAIN prev
  ELSE IF cs[Len(cs)].matchId # id THEN HasRecordAfter(prev, Front(cs), id)
  ELSE cs[Len(cs)].op # "resetSimulation"

\* the field f of match id once the calls cs are applied to prev: the last
\* call that writes the field decides
RECURSIVE FieldAfter(_, _, _, _)
FieldAfter(prev, cs, id, f) ==
  IF cs = <<>> THEN Current(prev, id)[f]
  ELSE LET c == cs[Len(cs)]
           earlier == FieldAfter(prev, Front(cs), id, f)
       IN  IF c.matchId # id THEN earlier
           ELSE CASE c.op = "resetSimulation" -> getDefaultSimulation[f]
                  [] c.op = "updateSimulation" ->
                       IF f \in DOMAIN c.updates THEN c.updates[f] ELSE earlier
                  [] c.op = "setParameter" ->
                       IF f = c.parameter THEN c.value ELSE earlier
                  [] c.op = "toggleParameter" ->
                       IF f = c.parameter THEN ~earlier ELSE earlier

\* C14: a render that applies the updaters queued since the last one leaves
\* every field of every match with the value of the last queued call that
\* writes it (a toggle negates what the calls before it left), and with the
\* value it had if no queued call writes it: no call is lost
C14_QueuedUpdatesAllApply ==
  [][Render =>
       \A id \in MatchIds :
         /\ id \in DOMAIN simulations' <=> HasRecordAfter(simulations, pending, id)
         /\ id \in DOMAIN simulations' =>
              \A f \in DOMAIN getDefaultSimulation :
                simulations'[id][f] = FieldAfter(simulations, pending, id, f)]_vars

\* after a render, two calls that write the same field of m1 with different
\* values are queued, behind each other
C14_Witness ==
  /\ simulations # <<>>
  /\ Len(pending) = 2
  /\ pending[1].matchId = "m1" /\ pending[2].matchId = "m1"
  /\ pending[1].op = "updateSimulation" /\ "formWeight" \in DOMAIN pending[1].updates
  /\ pending[2].op = "setParameter" /\ pending[2].parameter = "formWeight"
  /\ pending[2].value # pending[1].updates["formWeight"]

\* the largest of the homeWin, draw and awayWin of the result
MaxOutcome == QMax(QMax(result.homeWin, result.draw), result.awayWin)

\* C15: the confidence of a result is High exactly if the largest of its
\* homeWin, draw and awayWin is >= 55, Medium exactly if it is >= 40 and
\* < 55, and Low otherwise
C15_ConfidenceOfReturnedMaximum ==
  Returned =>
    result.confidence =
      IF QGe(MaxOutcome, QInt(55)) THEN "High"
      ELSE IF QGe(MaxOutcome, QInt(40)) THEN "Medium" ELSE "Low"

\* C15 as the code has it, with the thresholds on the percentages before
\* they are rounded: a returned maximum of 55.1 or more is High and one of
\* 54.9 or less is not, one from 40.1 to 54.9 is Medium, one of 39.9 or less
\* or NaN is Low, and a returned 55.0 or 40.0 is either of the levels that
\* meet there
C15_ConfidenceOfUnroundedMaximum ==
  Returned =>
    /\ QGe(MaxOutcome, <<551, 10>>) => result.confidence = "High"
    /\ MaxOutcome = QInt(55) => result.confidence \in {"High", "Medium"}
    /\ QGe(MaxOutcome, <<401, 10>>) /\ QLe(MaxOutcome, <<549, 10>>)
         => result.confidence = "Medium"
    /\ MaxOutcome = QInt(40) => result.confidence \in {"Medium", "Low"}
    /\ QLe(MaxOutcome, <<399, 10>>) \/ IsNaN(MaxOutcome)
         => result.confidence = "Low"

\* a result whose largest percentage is returned as 55.0 and whose
\* confidence is Medium
C15_Witness ==
  Returned /\ MaxOutcome = QInt(55) /\ result.confidence = "Medium"

\* the latest call is one of fn
CallOf(fn) == call # NoCall /\ call.fn = fn

\* the rules of the verdict, for a prediction p
Dominant(p) ==
  \/ QGt(p.homeWin, QInt(60)) /\ QLt(p.expectedGoals.away, <<1, 2>>)
  \/ QGt(p.awayWin, QInt(60)) /\ QLt(p.expectedGoals.home, <<1, 2>>)

Goalfest(p) == QGt(QAdd(p.expectedGoals.home, p.expectedGoals.away), <<7, 2>>)

Deadlock(p) == QGt(p.draw, QInt(35))

Tight(p) ==
  \/ QLt(QMax(QMax(p.homeWin, p.draw), p.awayWin), QInt(55))
  \/ QLt(QAbs(QSub(p.homeWin, p.awayWin)), QInt(15))

\* C16: the type of a verdict is that of the first rule its prediction
\* satisfies, in the order dominant, goalfest, deadlock, tight, and clear if
\* it satisfies none
C16_FirstRuleWins ==
  CallOf("calculateVerdict") =>
    call.output.type =
      IF Dominant(call.input) THEN "dominant"
      ELSE IF Goalfest(call.input) THEN "goalfest"
      ELSE IF Deadlock(call.input) THEN "deadlock"
      ELSE IF Tight(call.input) THEN "tight" ELSE "clear"

\* a prediction that satisfies the rule of the dominant win and that of the
\* goal fest has had the verdict dominant
C16_Witness ==
  /\ CallOf("calculateVerdict")
  /\ Dominant(call.input) /\ Goalfest(call.input)
  /\ call.output.type = "dominant"

\* a percentage: a number from 0 to 100
IsPercentage(q) == QGe(q, QInt(0)) /\ QLe(q, QInt(100))

\* the last words of the headline of the latest verdict
LastOfHeadline == call.output.headline[Len(call.output.headline)]

Present(odds) == ~IsNaN(odds) /\ odds # QInt(0)

\* C17: detectValue reports hasValue exactly if both odds are present
\* (numbers other than 0) and bookieOdds > modelOdds; for equal odds it
\* reports hasValue = false and edge = 0
C17_ValueIffBookieOddsHigher ==
  CallOf("detectValue") =>
    LET bookieOdds == call.input[1]
        modelOdds == call.input[2]
    IN  /\ call.output.hasValue
            <=> (Present(bookieOdds) /\ Present(modelOdds) /\ QGt(bookieOdds, modelOdds))
        /\ (~IsNaN(bookieOdds) /\ bookieOdds = modelOdds)
             => ~call.output.hasValue /\ call.output.edge = QInt(0)

\* detectValue has been given the odds 2 and 2
C17_Witness ==
  /\ CallOf("detectValue")
  /\ call.input = <<QInt(2), QInt(2)>>
  /\ call.output = [hasValue |-> FALSE, edge |-> QInt(0)]

\* 0.85, 1 or 1.15 for defensive, balanced or attacking, 1 for anything else
Stance(style) ==
  CASE style = "defensive" -> <<17, 20>>
    [] style = "attacking" -> <<23, 20>>
    [] OTHER -> QInt(1)

KeyPlayer(missing) == IF missing THEN <<7, 10>> ELSE QInt(1)

Goals(stats, count) == IF count \in DOMAIN stats THEN stats[count] ELSE QInt(0)

\* the matches played, 1 if the number is missing or below 1
Played(stats) ==
  IF "matchesPlayed" \in DOMAIN stats /\ QGe(stats["matchesPlayed"], QInt(1))
  THEN stats["matchesPlayed"] ELSE QInt(1)

\* the league average of the latest call, 1.5 if it is missing or not positive
League == IF args[3] # Undefined /\ QGt(args[3], QInt(0)) THEN args[3] ELSE <<3, 2>>

\* a multiplier of the latest call, 1 if it was made without modifiers
Multiplier(side, multiplier) ==
  IF args[4] = Null THEN QInt(1) ELSE args[4][side][multiplier]

\* (own goalsScored / own matchesPlayed) x (opponent goalsConceded / opponent
\* matchesPlayed) / leagueAverage x own attackMultiplier x opponent
\* defenseMultiplier
ClosedForm(own, opponent, ownSide, opponentSide) ==
  QMul(QMul(QDiv(QMul(QDiv(Goals(own, "goalsScored"), Played(own)),
                      QDiv(Goals(opponent, "goalsConceded"), Played(opponent))),
                 League),
            Multiplier(ownSide, "attackMultiplier")),
       Multiplier(opponentSide, "defenseMultiplier"))

\* C19: the expected goals predictMatch returns are, rounded to two
\* decimals, goals scored per match x the opponent's goals conceded per
\* match / leagueAverage x the side's attackMultiplier x the opponent's
\* defenseMultiplier, with 0 for a missing goal count, 1 for a matchesPlayed
\* that is missing or below 1 and 1.5 for a leagueAverage that is missing or
\* not positive
C19_ExpectedGoalsClosedForm ==
  Returned =>
    /\ result.expectedGoals.home =
         QRoundTo(ClosedForm(args[1], args[2], "home", "away"), 100)
    /\ result.expectedGoals.away =
         QRoundTo(ClosedForm(args[2], args[1], "away", "home"), 100)

\* Lions at home to Minnows with a league average of 2.5 and a home attack
\* of 0.7: 3 x 3 / 2.5 x 0.7 = 2.52 goals expected
C19_Witness ==
  /\ Returned
  /\ args[1] = Lions /\ args[2] = Minnows /\ args[3] = <<5, 2>>
  /\ args[4] # Null
  /\ args[4].home.attackMultiplier = <<7, 10>>
  /\ result.expectedGoals.home = <<63, 25>>

\* the sentences of the result on the expected goals
IsGoalsInsight(insight) == insight.kind \in {"dominate", "controlTempo", "evenlyMatched"}

GoalsInsights == SelectSeq(result.insights, IsGoalsInsight)

\* a is at least, and more than, 1.5 times b
AtLeastOneAndAHalf(a, b) == QGe(a, QMul(b, <<3, 2>>))

MoreThanOneAndAHalf(a, b) == QGt(a, QMul(b, <<3, 2>>))

\* C20: a prediction with positive expected goals has exactly one sentence
\* on them: the dominance sentence of a side that expects at least 1.5
\* times the goals of the other, exactly 1.5 times included, and otherwise
\* the evenly-matched sentence
C20_DominanceFromOneAndAHalf ==
  (Returned /\ Positive(ExpectedGoals.home) /\ Positive(ExpectedGoals.away)) =>
    /\ Len(GoalsInsights) = 1
    /\ GoalsInsights[1].kind =
         IF AtLeastOneAndAHalf(ExpectedGoals.home, ExpectedGoals.away) THEN "dominate"
         ELSE IF AtLeastOneAndAHalf(ExpectedGoals.away, ExpectedGoals.home)
         THEN "controlTempo" ELSE "evenlyMatched"

\* C20 as the code has it: every prediction has exactly one sentence on the
\* expected goals, the dominance sentence of a side that expects more than
\* 1.5 times the goals of the other, and otherwise (exactly 1.5 times
\* included) the evenly-matched sentence
C20_DominanceAboveOneAndAHalf ==
  Returned =>
    /\ Len(GoalsInsights) = 1
    /\ GoalsInsights[1].kind =
         IF MoreThanOneAndAHalf(ExpectedGoals.home, ExpectedGoals.away) THEN "dominate"
         ELSE IF MoreThanOneAndAHalf(ExpectedGoals.away, ExpectedGoals.home)
         THEN "controlTempo" ELSE "evenlyMatched"

\* a prediction of 1.5 goals against 1 has the evenly-matched sentence
C20_Witness ==
  /\ Returned
  /\ ExpectedGoals.home = <<3, 2>> /\ ExpectedGoals.away = QInt(1)
  /\ Len(GoalsInsights) = 1
  /\ GoalsInsights[1].kind = "evenlyMatched"

\* the defense strengths of the latest call, as the strength model has them
DefenseStrengths ==
  LET worked == expectedGoalsOf(args[1], args[2], args[3], args[4])
  IN  [home |-> worked.homeDefenseStrength, away |-> worked.awayDefenseStrength]

\* min(100, (2 - defenseStrength) * 40)
InvertedDefense(defenseStrength) ==
  QMin(QInt(100), QMul(QSub(QInt(2), defenseStrength), QInt(40)))

\* C21: in the radarData of every prediction the Defense value of each side
\* is min(100, (2 - defenseStrength) * 40) of that side's defense strength
\* (goals conceded per match, with matchesPlayed at least 1, over the league
\* average, times the defense multiplier)
C21_DefenseOfDefenseStrength ==
  Returned =>
    /\ result.radarData[2].metric = "Defense"
    /\ SameNumber(result.radarData[2].home, InvertedDefense(DefenseStrengths.home))
    /\ SameNumber(result.radarData[2].away, InvertedDefense(DefenseStrengths.away))

\* the sentences of the result r that generateInsights adds for modifiers
ModifierNotes(r) ==
  SelectSeq(r.insights, LAMBDA s : s.kind \in {"weakenedAttack", "homeFortress"})

\* the result r says that the attack of team is weakened by a key player's
\* absence
NotesWeakenedAttack(r, team) ==
  \E i \in DOMAIN r.insights : r.insights[i] = [kind |-> "weakenedAttack", team |-> team]

\* C30: the result of a card's prediction attributes a side's weakened
\* attack to a key player's absence only when that side's key-player-missing
\* flag is set in the parameters of the match, and it has no modifier note
\* when the parameters are the defaults
C30_KeyPlayerNoteOnlyWhenMissing ==
  [][\A id \in MatchIds :
       (runPrediction(id) /\ result' # MissingStatsError) =>
         /\ NotesWeakenedAttack(result', matchData[id].homeStats.name)
              => getSimulation(id).homeKeyPlayerMissing
         /\ NotesWeakenedAttack(result', matchData[id].awayStats.name)
              => getSimulation(id).awayKeyPlayerMissing
         /\ getSimulation(id) = getDefaultSimulation
              => ModifierNotes(result') = <<>>]_vars

(***************************************************************************)
(* Properties of the match card                                            *)
(***************************************************************************)
\* C29: once the card has its match data, and the user's changes of the
\* parameters having come to an end, there is a render after which no
\* effect recomputes the prediction any more
C29_CardComesToRest ==
  [](card.matchData # Null => <>[](~card.recomputed))

(***************************************************************************)
(* Properties of the data service                                          *)
(***************************************************************************)
\* Flight f calls fetchWithRetry in this step, from one of the fetch
\* functions or from testConnection
IsCalled(f) == FetchWithRetry(f) \/ TestConnection(f)

\* the call of Flight f throws in this step, after a request
Throws(f) ==
  fetches[f].phase \in {"fetching", "parsing"} /\ fetches'[f].phase = "threw"

WithinTimeout == timeSinceLastFailure(CIRCUIT_BREAKER, now) <= timeout

\* C22: when a call has thrown and it is the third (or a later one) since
\* the last call that returned, the breaker is OPEN; and a call that is
\* made while the breaker is OPEN, 30 seconds or less after the last
\* recorded failure, throws the circuit-breaker error at once: it issues
\* no request and the breaker is as it was
C22_ThreeFailuresOpenTheBreaker ==
  [][\A f \in Flights :
       /\ (Throws(f) /\ failedCalls' = threshold)
            => CIRCUIT_BREAKER'.state = "OPEN"
       /\ (IsCalled(f) /\ CIRCUIT_BREAKER.state = "OPEN" /\ WithinTimeout)
            => /\ fetches'[f].phase = "refused"
               /\ fetches'[f].requests = 0
               /\ CIRCUIT_BREAKER' = CIRCUIT_BREAKER]_vars

\* the call of Flight f was let through by a breaker that was HALF_OPEN
AdmittedHalfOpen(f) == fetches[f].admitted = "HALF_OPEN"

\* C23: a call made while the breaker is OPEN, more than 30 seconds after
\* the last recorded failure, leaves the breaker HALF_OPEN and issues a
\* request; a call let through in HALF_OPEN leaves the breaker CLOSED with
\* no failures when its response is good, and OPEN when it throws
C23_HalfOpenProbeDecides ==
  [][\A f \in Flights :
       /\ (IsCalled(f) /\ CIRCUIT_BREAKER.state = "OPEN" /\ ~WithinTimeout)
            => /\ CIRCUIT_BREAKER'.state = "HALF_OPEN"
               /\ fetches'[f].phase = "fetching"
               /\ fetches'[f].requests = 1
       /\ (AdmittedHalfOpen(f) /\ Respond(f, "200"))
            => /\ CIRCUIT_BREAKER'.state = "CLOSED"
               /\ CIRCUIT_BREAKER'.failures = 0
       /\ (AdmittedHalfOpen(f) /\ Throws(f))
            => CIRCUIT_BREAKER'.state = "OPEN"]_vars

\* C24: a call has made at most retries + 1 requests; a response that is
\* not the last one the call may ask for is followed by another attempt
\* exactly if its status is 500, 503 or 429, and a 403 or a 404 ends the
\* call at once
C24_RetriesOnServerErrorsAnd429 ==
  [][\A f \in Flights, response \in Responses :
       Respond(f, response) =>
         /\ fetches'[f].requests <= fetches'[f].retries + 1
         /\ fetches[f].attempt < fetches[f].retries =>
              (fetches'[f].phase = "sleeping" <=> response \in {"500", "503", "429"})
         /\ response \in {"403", "404"} => fetches'[f].phase = "threw"]_vars

(***************************************************************************)
(* Properties of the wallet                                                *)
(***************************************************************************)
\* the balance with the updaters React holds applied
CurrentBalance == Rendered(wallet, updaters).balance

\* C25: the balance is never negative, and a placeBet whose stake is more
\* than the balance of the moment (the bets placed since the last render
\* counted) throws 'Insufficient balance' and leaves the balance and the
\* active bets as they were
C25_BalanceNeverNegative ==
  [][/\ ~QLt(wallet'.balance, QInt(0))
     /\ \A stake \in Stakes, odds \in DecimalOdds :
          (placeBet([stake |-> stake, odds |-> odds]) /\ QGt(stake, CurrentBalance))
            => /\ call'.output = InsufficientBalance
               /\ UNCHANGED <<wallet, updaters>>]_vars

\* the updaters React holds that settle or cancel the bet
Resolutions(betId) ==
  {i \in DOMAIN updaters :
     updaters[i].op \in {"settleBet", "cancelBet"} /\ updaters[i].betId = betId}

\* C27: a render adds the payout or the refund of a bet to the balance at
\* most once (it applies at most one updater that settles or cancels the
\* bet), and leaves the bet at most once in settledBets
C27_BetResolvedAtMostOnce ==
  [][RenderWallet =>
       \A betId \in BetIds :
         /\ Cardinality(Resolutions(betId)) <= 1
         /\ Len(SelectSeq(wallet'.settledBets, LAMBDA b : b.id = betId)) <= 1]_vars

\* C28: when the page is loaded again, a wallet with a balance of 0 or
\* more comes back with the balance, the active bets and the settled bets
\* it was saved with
C28_SaveAndLoadRoundTrip ==
  [][(Reload /\ QGe(wallet.balance, QInt(0))) => wallet' = wallet]_vars

====
